---- MODULE Spec2Model ----
(***************************************************************************)
(* pcf2go (src/util/pcf2go.cpp): a forward-only decoder of the PCF         *)
(* compiled bitmap-font container and its emitter of Go source text.       *)
(* The input stream is modelled byte for byte; one action per phase of     *)
(* main(), each followed to its exit(1) or to the next phase.              *)
(***************************************************************************)
EXTENDS Integers, Sequences, FiniteSets, TLC

\* ------------------------------------------------------------------------
\* Section ids (enum type32) and format ids.
PCF_PROPERTIES == 1
PCF_ACCELERATORS == 2
PCF_METRICS == 4
PCF_BITMAPS == 8
PCF_INK_METRICS == 16
PCF_BDF_ENCODINGS == 32
PCF_SWIDTHS == 64
PCF_GLYPH_NAMES == 128
PCF_BDF_ACCELERATORS == 256
PCF_DEFAULT_FORMAT == 0
PCF_ACCEL_W_INKBOUNDS == 1
PCF_COMPRESSED_METRICS == 1
GLYPHPADOPTIONS == 4
NO_SUCH_CHAR == 65535

\* ------------------------------------------------------------------------
\* Fixed-width integer conversions (two's complement).  Every value of the
\* model is a 32-bit signed integer; a uint32 is held as the int32 with the
\* same bits, so that a negative value stands for one of 2^31 or more.
ToUint16(v) == v % 65536
ToInt16(v) == IF v % 65536 >= 32768 THEN (v % 65536) - 65536 ELSE v % 65536
INT32_MIN == -2147483647 - 1

\* (int)(a - b) for an int32 a and a long b >= 0 below 2^31: the difference
\* is taken in a long and wraps when narrowed to int.
SubToInt32(a, b) ==
    IF a >= INT32_MIN + b THEN a - b
    ELSE ((((a + 2147483647) + 1) - b) + 2147483647) + 1

\* make_int16(a, b): a is the high byte; the result is 0..65535 (an int).
make_int16(a, b) == (a % 256) * 256 + (b % 256)

\* make_int32(a, b, c, d): a is the high byte; the result is a signed int32.
make_int32(a, b, c, d) ==
    ((IF a % 256 >= 128 THEN (a % 256) - 256 ELSE a % 256) * 16777216)
    + ((b % 256) * 65536) + ((c % 256) * 256) + (d % 256)

\* format32 unpacked from the little-endian word v (read_format32_little).
FormatOf(v) ==
    [id    |-> (v \div 256) % 16777216,
     scan  |-> (v \div 16) % 4,
     bit   |-> (v \div 8) % 2,
     byte  |-> (v \div 4) % 2,
     glyph |-> v % 4]

\* format32::is_little_endian
is_little_endian(f) == f.byte = 0

\* BDF file is outputed: MSBit first and MSByte first
BDF_format == [id |-> PCF_DEFAULT_FORMAT, scan |-> 0, bit |-> 1, byte |-> 1, glyph |-> 0]

\* 1 << n for the two-bit fields scan and glyph.
Shl1(n) == CASE n = 0 -> 1 [] n = 1 -> 2 [] n = 2 -> 4 [] OTHER -> 8

\* metric_t::bytesPerRow(bits, nbytes), returned as int16.
bytesPerRow(bits, nbytes) ==
    ToInt16(CASE nbytes = 1 -> (bits + 7) \div 8
              [] nbytes = 2 -> ((bits + 15) \div 8) - (((bits + 15) \div 8) % 2)
              [] nbytes = 4 -> ((bits + 31) \div 8) - (((bits + 31) \div 8) % 4)
              [] nbytes = 8 -> ((bits + 63) \div 8) - (((bits + 63) \div 8) % 8)
              [] OTHER -> 0)

\* metric_t::widthBits and metric_t::height: the int result narrowed to int16.
widthBits(m) == ToInt16(m.rightSideBearing - m.leftSideBearing)
height(m) == ToInt16(m.ascent + m.descent)

\* metric_t::widthBytes(f)
widthBytes(m, f) == bytesPerRow(widthBits(m), Shl1(f.glyph))

\* C integer division, truncating toward zero.
CDiv(a, b) ==
    IF (a >= 0) = (b > 0) THEN (IF a >= 0 THEN a ELSE -a) \div (IF b >= 0 THEN b ELSE -b)
    ELSE -((IF a >= 0 THEN a ELSE -a) \div (IF b >= 0 THEN b ELSE -b))

\* C remainder: a - (a / b) * b.
CMod(a, b) == a - CDiv(a, b) * b

\* ------------------------------------------------------------------------
\* Reads at byte position p (0-based) of a stream s.  The callers check
\* that the bytes exist before they use the value (read8's EOF test).
read_uint8(s, p) == s[p + 1] % 256
read_bool8(s, p) == s[p + 1] # 0
read_int16_big(s, p) == make_int16(s[p + 1], s[p + 2])
read_int16_little(s, p) == make_int16(s[p + 2], s[p + 1])
read_int16(s, p, f) ==
    IF is_little_endian(f) THEN read_int16_little(s, p) ELSE read_int16_big(s, p)
read_int32_big(s, p) == make_int32(s[p + 1], s[p + 2], s[p + 3], s[p + 4])
read_int32_little(s, p) == make_int32(s[p + 4], s[p + 3], s[p + 2], s[p + 1])
read_int32(s, p, f) ==
    IF is_little_endian(f) THEN read_int32_little(s, p) ELSE read_int32_big(s, p)
\* read_uint32: (uint32)read_int32(), held as the int32 with the same bits.
read_uint32(s, p, f) == read_int32(s, p, f)
read_format32_little(s, p) == FormatOf(read_int32_little(s, p))

\* read_byte8s: the n bytes at p.
read_byte8s(s, p, n) == [k \in 1..n |-> s[p + k]]

\* read_metric: six 16-bit fields; the five bearings are stored as int16,
\* attributes as uint16.
read_metric(s, p, f) ==
    [leftSideBearing  |-> ToInt16(read_int16(s, p, f)),
     rightSideBearing |-> ToInt16(read_int16(s, p + 2, f)),
     characterWidth   |-> ToInt16(read_int16(s, p + 4, f)),
     ascent           |-> ToInt16(read_int16(s, p + 6, f)),
     descent          |-> ToInt16(read_int16(s, p + 8, f)),
     attributes       |-> ToUint16(read_int16(s, p + 10, f))]

\* Bytes one read_metric call consumes.
MetricBytes == 2 + 2 + 2 + 2 + 2 + 2

\* read_compressed_metric: one read_uint8 per bearing field, biased by 0x80.
read_compressed_metric(s, p) ==
    [leftSideBearing  |-> read_uint8(s, p) - 128,
     rightSideBearing |-> read_uint8(s, p + 1) - 128,
     characterWidth   |-> read_uint8(s, p + 2) - 128,
     ascent           |-> read_uint8(s, p + 3) - 128,
     descent          |-> read_uint8(s, p + 4) - 128,
     attributes       |-> 0]
\* A compressed metric record taken to be four bytes on the wire.
CompressedMetricBytes_Four == 1 + 1 + 1 + 1

\* Bytes one read_compressed_metric call consumes (its read_uint8 calls).
CompressedMetricBytes == 1 + 1 + 1 + 1 + 1

\* ------------------------------------------------------------------------
\* The container as the decoder expects it on the wire: these operators
\* build the input streams that Init enumerates.  fw is a section's 32-bit
\* format word; its byte-order bit selects the encoding of the section's
\* integers, as read_int16 / read_int32 decode them.
RECURSIVE Flatten(_)
Flatten(ss) == IF ss = <<>> THEN <<>> ELSE Head(ss) \o Flatten(Tail(ss))

Zeros(n) == [k \in 1..n |-> 0]

Enc16(fw, v) ==
    IF (fw \div 4) % 2 = 0
    THEN <<(v % 65536) % 256, (v % 65536) \div 256>>
    ELSE <<(v % 65536) \div 256, (v % 65536) % 256>>

Enc32(fw, v) ==
    LET b0 == v % 256
        b1 == (v \div 256) % 256
        b2 == (v \div 65536) % 256
        b3 == (v \div 16777216) % 256
    IN  IF (fw \div 4) % 2 = 0 THEN <<b0, b1, b2, b3>> ELSE <<b3, b2, b1, b0>>

LE32(v) == Enc32(0, v)

\* A full metric: six 16-bit fields.
MetricWire(fw, m) ==
    Enc16(fw, m.leftSideBearing) \o Enc16(fw, m.rightSideBearing)
    \o Enc16(fw, m.characterWidth) \o Enc16(fw, m.ascent)
    \o Enc16(fw, m.descent) \o Enc16(fw, m.attributes)

\* A compressed metric: one biased byte per bearing field.
CompressedMetricWire(m) ==
    <<(m.leftSideBearing + 128) % 256, (m.rightSideBearing + 128) % 256,
      (m.characterWidth + 128) % 256, (m.ascent + 128) % 256,
      (m.descent + 128) % 256>>

\* Properties section: format, count, (name, isString, value) triples, padding
\* to a 4-byte boundary, blob size, blob.
PropertiesWire(fw, ps, blob) ==
    LE32(fw) \o Enc32(fw, Len(ps))
    \o Flatten([i \in 1..Len(ps) |->
           Enc32(fw, ps[i].name) \o <<IF ps[i].isStringProp THEN 1 ELSE 0>>
           \o Enc32(fw, ps[i].value)])
    \o Zeros(3 - ((9 * Len(ps) + 3) % 4))
    \o Enc32(fw, Len(blob)) \o blob

\* Accelerators section: format, 8 flag bytes, 3 int32, 2 (or 4) metrics.
AcceleratorsWire(fw, a) ==
    LE32(fw)
    \o <<a.noOverlap, a.constantMetrics, a.terminalFont, a.constantWidth,
         a.inkInside, a.inkMetrics, a.drawDirection, 0>>
    \o Enc32(fw, a.fontAscent) \o Enc32(fw, a.fontDescent) \o Enc32(fw, a.maxOverlap)
    \o MetricWire(fw, a.minBounds) \o MetricWire(fw, a.maxBounds)
    \o (IF (fw \div 256) % 16777216 = PCF_ACCEL_W_INKBOUNDS
        THEN MetricWire(fw, a.ink_minBounds) \o MetricWire(fw, a.ink_maxBounds)
        ELSE <<>>)

\* Metrics section: format, count (32-bit, or 16-bit when compressed), metrics.
\* n is the declared count.
MetricsWire(fw, n, ms) ==
    LE32(fw)
    \o (IF (fw \div 256) % 16777216 = PCF_COMPRESSED_METRICS
        THEN Enc16(fw, n) \o Flatten([i \in 1..Len(ms) |-> CompressedMetricWire(ms[i])])
        ELSE Enc32(fw, n) \o Flatten([i \in 1..Len(ms) |-> MetricWire(fw, ms[i])]))

\* Bitmaps section: format, count, offsets, the four sizes, the buffer.
BitmapsWire(fw, n, offs, sizes, data) ==
    LE32(fw) \o Enc32(fw, n)
    \o Flatten([i \in 1..Len(offs) |-> Enc32(fw, offs[i])])
    \o Flatten([i \in 1..Len(sizes) |-> Enc32(fw, sizes[i])])
    \o data

\* Encodings section: format, the five 16-bit bounds, the cells.
EncodingsWire(fw, fc, lc, fr, lr, dc, cells) ==
    LE32(fw) \o Enc16(fw, fc) \o Enc16(fw, lc) \o Enc16(fw, fr) \o Enc16(fw, lr)
    \o Enc16(fw, dc)
    \o [k \in 1..(2 * Len(cells)) |-> Enc16(fw, cells[(k + 1) \div 2])[2 - (k % 2)]]

\* Swidths section: format, count, one int32 per glyph.
SwidthsWire(fw, n, ws) ==
    LE32(fw) \o Enc32(fw, n) \o Flatten([i \in 1..Len(ws) |-> Enc32(fw, ws[i])])

\* Glyph names section: format, count, offsets, blob size, blob.
GlyphNamesWire(fw, n, offs, blob) ==
    LE32(fw) \o Enc32(fw, n) \o Flatten([i \in 1..Len(offs) |-> Enc32(fw, offs[i])])
    \o Enc32(fw, Len(blob)) \o blob

\* The magic, as read_int32_big must find it: make_int32(1, 'f', 'c', 'p').
PcfMagic == <<1, 102, 99, 112>>

\* Bytes of the fixed header and the table of contents of n entries.
TocBytes(n) == 4 + 4 + (4 + 4 + 4 + 4) * n

RECURSIVE SumLen(_, _)
SumLen(bodies, k) == IF k = 0 THEN 0 ELSE Len(bodies[k]) + SumLen(bodies, k - 1)

\* A container laid out from: the magic; toc, the table of contents as a
\* sequence of [type, delta] (the entry's offset is the start of the section
\* of that type in the file, plus delta); gap, the unused bytes before each
\* section; fileOrder, the section types in file order; body, the bytes of
\* each section; cut, the bytes missing from the end of the file.
Container(magic, toc, gap, fileOrder, body, cut) ==
    LET bodies == [k \in 1..Len(fileOrder) |-> Zeros(gap) \o body[fileOrder[k]]]
        base == TocBytes(Len(toc))
        posOf(t) == CHOOSE k \in 1..Len(fileOrder) : fileOrder[k] = t
        startOf(t) == IF \E k \in 1..Len(fileOrder) : fileOrder[k] = t
                      THEN base + SumLen(bodies, posOf(t) - 1) + gap
                      ELSE base
        fwOf(t) == IF \E k \in 1..Len(fileOrder) : fileOrder[k] = t
                   THEN read_int32_little(body[t], 0) ELSE 0
        szOf(t) == IF \E k \in 1..Len(fileOrder) : fileOrder[k] = t
                   THEN Len(body[t]) ELSE 0
        all == magic \o LE32(Len(toc))
               \o Flatten([i \in 1..Len(toc) |->
                      LE32(toc[i].type) \o LE32(fwOf(toc[i].type))
                      \o LE32(szOf(toc[i].type))
                      \o LE32(startOf(toc[i].type) + toc[i].delta)])
               \o Flatten(bodies)
    IN  SubSeq(all, 1, Len(all) - cut)

\* ------------------------------------------------------------------------
\* State.  The names are those of the globals and of main()'s locals.
VARIABLES
    ifilename,      \* argv: the positional input path, or NoPath
    ofilename,      \* argv: the -o path, or NoPath
    env,            \* what the run is given and finds: the input path as
                    \* passed, the input file (or stdin), what gzip -dc
                    \* yields for it, whether the output opens
    pc,             \* position in main()
    exitCode,       \* the process's exit status once pc = "exit"
    diag,           \* the message written to stderr by the exiting call
    runs,           \* invocations started so far
    ifp,            \* the bytes of the stream being read
    read_bytes,     \* bytes consumed
    format,         \* current section format
    version,
    tables,         \* table of contents; nTables = Len(tables)
    props, stringSize, string,
    accelerators,
    accelReads,     \* history: the section type of every read_accelerators call
    metrics, fontbbx,
    nBitmaps, bitmapOffsets, bitmapSizes, bitmapSize, bitmaps,
    firstCol, lastCol, firstRow, lastRow, defaultCh,
    encodings, nValidEncodings,
    nSwidths, nGlyphNames, glyphNamesSize, glyphNames,
    outfile_exists,
    ofp,            \* "file", "stdout" or "closed"
    obuf,           \* text written to ofp and not yet flushed
    fsExists, fs,   \* the -o destination: whether it exists, and its text
    stdoutS,        \* text that reached standard output
    fsExists0, fs0  \* history: the -o destination as the process found it

argVars == <<ifilename, ofilename, env, fsExists0, fs0>>
ctlVars == <<pc, exitCode, diag, runs>>
curVars == <<ifp, read_bytes, format>>
tocVars == <<version, tables>>
propVars == <<props, stringSize, string>>
accVars == <<accelerators, accelReads>>
metVars == <<metrics, fontbbx>>
bmpVars == <<nBitmaps, bitmapOffsets, bitmapSizes, bitmapSize, bitmaps>>
encVars == <<firstCol, lastCol, firstRow, lastRow, defaultCh, encodings, nValidEncodings>>
nameVars == <<nSwidths, nGlyphNames, glyphNamesSize, glyphNames>>
outVars == <<outfile_exists, ofp, obuf, fsExists, fs, stdoutS>>
decVars == <<tocVars, propVars, accVars, metVars, bmpVars, encVars, nameVars>>
vars == <<argVars, ctlVars, curVars, decVars, outVars>>

\* A path that was not given (a NULL char pointer); real paths are
\* sequences of one-character strings.
NoPath == <<"(null)">>

\* nTables
nTables == Len(tables)
\* nMetrics
nMetrics == Len(metrics)
\* nProps
nProps == Len(props)
\* nEncodings
nEncodings == Len(encodings)

\* Bytes left in the stream at the cursor.
Avail == Len(ifp) - read_bytes

\* exit(): the C library flushes what was written to ofp.
FlushAtExit ==
    /\ obuf' = <<>>
    /\ ofp' = "closed"
    /\ fs' = IF ofp = "file" THEN fs \o obuf ELSE fs
    /\ stdoutS' = IF ofp = "stdout" THEN stdoutS \o obuf ELSE stdoutS
    /\ UNCHANGED <<outfile_exists, fsExists>>

\* error_exit / error_invalid_exit / check_int32_min failing: message, exit(1).
Fatal(msg) ==
    /\ pc' = "exit"
    /\ exitCode' = 1
    /\ diag' = msg
    /\ UNCHANGED runs
    /\ FlushAtExit

\* Control moves on inside main().
Goto(next) ==
    /\ pc' = next
    /\ UNCHANGED <<exitCode, diag, runs>>

\* main(): open the input, read the first four bytes, and re-open through
\* gzip -dc when they carry a compress or gzip magic.
OpenInput ==
    /\ pc = "open_in"
    /\ IF ifilename # NoPath /\ ~env.exists
       THEN Fatal("failed to open input pcf file") /\ UNCHANGED <<curVars, version>>
       ELSE IF Len(env.file) < 4
       THEN Fatal("unexpected eof") /\ UNCHANGED <<curVars, version>>
       ELSE LET v == read_int32_big(env.file, 0)
            IN  IF v \div 65536 = 8093 \/ v \div 65536 = 8075
                THEN IF ifilename = NoPath
                     THEN Fatal("stdin is gzip'ed or compress'ed")
                          /\ UNCHANGED <<curVars, version>>
                     ELSE /\ ifp' = env.unzipped
                          /\ read_bytes' = 0
                          /\ version' = v
                          /\ Goto("open_out")
                          /\ UNCHANGED <<format, outVars>>
                ELSE /\ ifp' = env.file
                     /\ read_bytes' = 4
                     /\ version' = v
                     /\ Goto("open_out")
                     /\ UNCHANGED <<format, outVars>>
    /\ UNCHANGED <<argVars, tables, propVars, accVars, metVars, bmpVars, encVars, nameVars>>

\* main(): probe the -o destination with fopen "r", then open it "ab" when it
\* exists and "wb" (creating it empty) when it does not; stdout otherwise.
OpenOutput ==
    /\ pc = "open_out"
    /\ IF ofilename # NoPath
       THEN IF ~env.writable
            THEN Fatal("failed to open output bdf file")
            ELSE /\ outfile_exists' = fsExists
                 /\ fsExists' = TRUE
                 /\ fs' = IF fsExists THEN fs ELSE <<>>
                 /\ ofp' = "file"
                 /\ UNCHANGED <<obuf, stdoutS>>
                 /\ Goto("toc")
       ELSE /\ outfile_exists' = FALSE
            /\ ofp' = "stdout"
            /\ UNCHANGED <<obuf, fsExists, fs, stdoutS>>
            /\ Goto("toc")
    /\ UNCHANGED <<argVars, curVars, decVars>>

\* The table of contents read at position p: n entries of four
\* little-endian words.
ReadTables(s, p, n) ==
    [i \in 1..n |->
        [type   |-> read_int32_little(s, p + 16 * (i - 1)),
         format |-> read_format32_little(s, p + 16 * (i - 1) + 4),
         size   |-> read_int32_little(s, p + 16 * (i - 1) + 8),
         offset |-> read_int32_little(s, p + 16 * (i - 1) + 12)]]

\* main(): read table of contents.  The magic is read again only when the
\* stream was re-opened (read_bytes = 0).
ReadToc ==
    /\ pc = "toc"
    /\ LET p0 == IF read_bytes = 0 THEN 4 ELSE read_bytes
           ver == IF read_bytes = 0 THEN read_int32_big(ifp, 0) ELSE version
           n == read_int32_little(ifp, p0)
       IN  IF read_bytes = 0 /\ Len(ifp) < 4
           THEN Fatal("unexpected eof") /\ UNCHANGED <<curVars, tocVars>>
           ELSE IF ver # make_int32(1, 102, 99, 112)
           THEN Fatal("this is not PCF file format") /\ UNCHANGED <<curVars, tocVars>>
           ELSE IF Len(ifp) - p0 < 4
           THEN Fatal("unexpected eof") /\ UNCHANGED <<curVars, tocVars>>
           ELSE IF ~(1 <= n)
           THEN Fatal("nTables is out of range") /\ UNCHANGED <<curVars, tocVars>>
           ELSE IF Len(ifp) - (p0 + 4) < 16 * n
           THEN Fatal("unexpected eof") /\ UNCHANGED <<curVars, tocVars>>
           ELSE /\ version' = ver
                /\ tables' = ReadTables(ifp, p0 + 4, n)
                /\ read_bytes' = p0 + 4 + 16 * n
                /\ UNCHANGED <<ifp, format, outVars>>
                /\ Goto("seek_props")
    /\ UNCHANGED <<argVars, propVars, accVars, metVars, bmpVars, encVars, nameVars>>

\* ------------------------------------------------------------------------
\* Index of the first table-of-contents entry of the given type, 0 if none
\* (the loop of seek and of is_exist_section).
TableIndex(type) ==
    IF \E i \in 1..nTables : tables[i].type = type
    THEN CHOOSE i \in 1..nTables :
             /\ tables[i].type = type
             /\ \A j \in 1..(i - 1) : tables[j].type # type
    ELSE 0

\* is_exist_section(type)
is_exist_section(type) == TableIndex(type) # 0

\* A seek that skips the backward test: the cursor stays where it is.
seek_NoBackwardTest(type) ==
    LET i == TableIndex(type)
        s == SubToInt32(tables[i].offset, read_bytes)
    IN  IF i = 0 THEN [res |-> "notfound", pos |-> read_bytes]
        ELSE IF s < 0 THEN [res |-> "found", pos |-> read_bytes]
        ELSE IF Avail < s THEN [res |-> "eof", pos |-> read_bytes]
        ELSE [res |-> "found", pos |-> read_bytes + s]

\* A seek() over a seekable stream: a section before the cursor is reached
\* by going back to its offset.
seek_Rewind(type) ==
    LET i == TableIndex(type)
        s == SubToInt32(tables[i].offset, read_bytes)
    IN  IF i = 0 THEN [res |-> "notfound", pos |-> read_bytes]
        ELSE IF s < 0 /\ tables[i].offset < 0
        THEN [res |-> "backward", pos |-> read_bytes]
        ELSE IF s < 0 THEN [res |-> "found", pos |-> tables[i].offset]
        ELSE IF Avail < s THEN [res |-> "eof", pos |-> read_bytes]
        ELSE [res |-> "found", pos |-> read_bytes + s]

\* seek(type): the distance s is an int computed from the long read_bytes;
\* s < 0 is fatal; skip(s) reads s bytes, and end-of-stream in it is fatal.
seek(type) ==
    LET i == TableIndex(type)
        s == SubToInt32(tables[i].offset, read_bytes)
    IN  IF i = 0 THEN [res |-> "notfound", pos |-> read_bytes]
        ELSE IF s < 0 THEN [res |-> "backward", pos |-> read_bytes]
        ELSE IF Avail < s THEN [res |-> "eof", pos |-> read_bytes]
        ELSE [res |-> "found", pos |-> read_bytes + s]

\* One `if (!seek(type)) error_exit(msg)` / `if (seek(type))` of main():
\* found continues at pc = onFound with the cursor at the section; not found
\* is fatal with msg for a required section (onMissing = "") and continues
\* at onMissing for an optional one.
SeekStep(type, onFound, onMissing, msg) ==
    LET r == seek(type)
    IN  CASE r.res = "found" ->
                /\ read_bytes' = r.pos
                /\ UNCHANGED <<ifp, format, outVars>>
                /\ Goto(onFound)
          [] r.res = "backward" -> Fatal("seek") /\ UNCHANGED curVars
          [] r.res = "eof" -> Fatal("unexpected eof") /\ UNCHANGED curVars
          [] OTHER ->
                IF onMissing = ""
                THEN Fatal(msg) /\ UNCHANGED curVars
                ELSE Goto(onMissing) /\ UNCHANGED <<curVars, outVars>>

SeekProperties ==
    /\ pc = "seek_props"
    /\ SeekStep(PCF_PROPERTIES, "read_props", "", "PCF_PROPERTIES does not found")
    /\ UNCHANGED <<argVars, decVars>>

\* A main() that reads the legacy Accelerators section whatever else the
\* ToC lists.
SeekOldAccelerators_Always ==
    /\ pc = "seek_accel"
    /\ IF is_exist_section(PCF_ACCELERATORS)
          \/ ~is_exist_section(PCF_BDF_ACCELERATORS)
       THEN SeekStep(PCF_ACCELERATORS, "read_accel", "",
                     "PCF_ACCELERATORS and PCF_BDF_ACCELERATORS do not found")
       ELSE Goto("seek_metrics") /\ UNCHANGED <<curVars, outVars>>
    /\ UNCHANGED <<argVars, decVars>>

\* read old accelerators section: only when no BDF accelerators are listed.
SeekOldAccelerators ==
    /\ pc = "seek_accel"
    /\ IF ~is_exist_section(PCF_BDF_ACCELERATORS)
       THEN SeekStep(PCF_ACCELERATORS, "read_accel", "",
                     "PCF_ACCELERATORS and PCF_BDF_ACCELERATORS do not found")
       ELSE Goto("seek_metrics") /\ UNCHANGED <<curVars, outVars>>
    /\ UNCHANGED <<argVars, decVars>>

SeekMetrics ==
    /\ pc = "seek_metrics"
    /\ SeekStep(PCF_METRICS, "read_metrics", "", "PCF_METRICS does not found")
    /\ UNCHANGED <<argVars, decVars>>

SeekBitmaps ==
    /\ pc = "seek_bitmaps"
    /\ SeekStep(PCF_BITMAPS, "read_bitmaps", "", "PCF_BITMAPS does not found")
    /\ UNCHANGED <<argVars, decVars>>

SeekEncodings ==
    /\ pc = "seek_enc"
    /\ SeekStep(PCF_BDF_ENCODINGS, "read_enc", "", "PCF_BDF_ENCODINGS does not found")
    /\ UNCHANGED <<argVars, decVars>>

SeekSwidths ==
    /\ pc = "seek_swidths"
    /\ SeekStep(PCF_SWIDTHS, "read_swidths", "calc_swidths", "")
    /\ UNCHANGED <<argVars, decVars>>

SeekGlyphNames ==
    /\ pc = "seek_gnames"
    /\ SeekStep(PCF_GLYPH_NAMES, "read_gnames", "seek_bdfaccel", "")
    /\ UNCHANGED <<argVars, decVars>>

SeekBdfAccelerators ==
    /\ pc = "seek_bdfaccel"
    /\ SeekStep(PCF_BDF_ACCELERATORS, "read_bdfaccel", "write_header", "")
    /\ UNCHANGED <<argVars, decVars>>

\* ------------------------------------------------------------------------
\* Properties section decoded at the cursor.  err = "" on success.
DecodeProperties(s, p) ==
    LET f == read_format32_little(s, p)
        n == read_int32(s, p + 4, f)
        pad == 3 - (((4 + 1 + 4) * n + 3) % 4)
        q == p + 8 + 9 * n + pad
        size == read_int32(s, q, f)
        ps == [i \in 1..n |->
                 [name         |-> read_int32(s, p + 8 + 9 * (i - 1), f),
                  isStringProp |-> read_bool8(s, p + 8 + 9 * (i - 1) + 4),
                  value        |-> read_int32(s, p + 8 + 9 * (i - 1) + 5, f)]]
    IN  IF Len(s) - p < 4 THEN [err |-> "unexpected eof"]
        ELSE IF f.id # PCF_DEFAULT_FORMAT THEN [err |-> "properties(format)"]
        ELSE IF Len(s) - p < 8 THEN [err |-> "unexpected eof"]
        ELSE IF ~(1 <= n) THEN [err |-> "nProps is out of range"]
        ELSE IF n > Len(s) THEN [err |-> "unexpected eof"]
        ELSE IF Len(s) - p < 8 + 9 * n + pad + 4 THEN [err |-> "unexpected eof"]
        ELSE IF ~(0 <= size) THEN [err |-> "stringSize is out of range"]
        ELSE IF size > Len(s) \/ Len(s) - (q + 4) < size THEN [err |-> "unexpected eof"]
        ELSE IF \E i \in 1..n : size <= ps[i].name
                  /\ \A j \in 1..(i - 1) : ps[j].isStringProp => ~(size <= ps[j].value)
             THEN [err |-> "properties(name)"]
        ELSE IF \E i \in 1..n : ps[i].isStringProp /\ size <= ps[i].value
             THEN [err |-> "properties(value)"]
        ELSE [err |-> "", format |-> f, props |-> ps, stringSize |-> size,
              string |-> read_byte8s(s, q + 4, size) \o <<0>>, end |-> q + 4 + size]

\* main(): read properties section.
ReadProperties ==
    /\ pc = "read_props"
    /\ LET r == DecodeProperties(ifp, read_bytes)
       IN  IF r.err # ""
           THEN Fatal(r.err) /\ UNCHANGED <<curVars, propVars>>
           ELSE /\ format' = r.format
                /\ props' = r.props
                /\ stringSize' = r.stringSize
                /\ string' = r.string
                /\ read_bytes' = r.end
                /\ UNCHANGED <<ifp, outVars>>
                /\ Goto("seek_accel")
    /\ UNCHANGED <<argVars, tocVars, accVars, metVars, bmpVars, encVars, nameVars>>

\* The NUL-terminated string at offset off of a blob that ends with a NUL.
RECURSIVE CStr(_, _)
CStr(blob, off) ==
    IF blob[off + 1] = 0 THEN <<>> ELSE <<blob[off + 1]>> \o CStr(blob, off + 1)

\* "POINT_SIZE", "RESOLUTION_X", "RESOLUTION" as bytes.
POINT_SIZE == <<80, 79, 73, 78, 84, 95, 83, 73, 90, 69>>
RESOLUTION_X == <<82, 69, 83, 79, 76, 85, 84, 73, 79, 78, 95, 88>>
RESOLUTION == <<82, 69, 83, 79, 76, 85, 84, 73, 79, 78>>

\* What reading through a pointer outside its buffer may do: the process
\* dies on the access, or the access yields bytes that are not the text
\* looked for.
WildOutcomes == {"crash", "garbage"}

\* get_property_value(name): the first property of that name decides; a
\* string property is fatal; -1 when there is none.  A name pointer below
\* the blob (a negative offset passed the range test) is read by strcmp.
RECURSIVE get_property_value(_, _, _)
get_property_value(name, i, wild) ==
    IF i > nProps THEN [res |-> "value", v |-> -1]
    ELSE IF props[i].name < 0
    THEN IF wild = "crash" THEN [res |-> "crash", v |-> 0]
         ELSE get_property_value(name, i + 1, wild)
    ELSE IF CStr(string, props[i].name) = name
    THEN IF props[i].isStringProp THEN [res |-> "fatal", v |-> 0]
         ELSE [res |-> "value", v |-> props[i].value]
    ELSE get_property_value(name, i + 1, wild)

\* ------------------------------------------------------------------------
\* read_accelerators at the cursor.
DecodeAccelerators(s, p) ==
    LET f == read_format32_little(s, p)
        ink == f.id = PCF_ACCEL_W_INKBOUNDS
        need == 4 + 8 + 12 + 2 * MetricBytes + (IF ink THEN 2 * MetricBytes ELSE 0)
        minB == read_metric(s, p + 24, f)
        maxB == read_metric(s, p + 24 + MetricBytes, f)
    IN  IF Len(s) - p < 4 THEN [err |-> "unexpected eof"]
        ELSE IF ~(f.id = PCF_DEFAULT_FORMAT \/ f.id = PCF_ACCEL_W_INKBOUNDS)
        THEN [err |-> "accelerators"]
        ELSE IF Len(s) - p < need THEN [err |-> "unexpected eof"]
        ELSE [err |-> "", format |-> f, end |-> p + need,
              acc |-> [noOverlap       |-> read_bool8(s, p + 4),
                       constantMetrics |-> read_bool8(s, p + 5),
                       terminalFont    |-> read_bool8(s, p + 6),
                       constantWidth   |-> read_bool8(s, p + 7),
                       inkInside       |-> read_bool8(s, p + 8),
                       inkMetrics      |-> read_bool8(s, p + 9),
                       drawDirection   |-> read_bool8(s, p + 10),
                       fontAscent      |-> read_int32(s, p + 12, f),
                       fontDescent     |-> read_int32(s, p + 16, f),
                       maxOverlap      |-> read_int32(s, p + 20, f),
                       minBounds       |-> minB,
                       maxBounds       |-> maxB,
                       ink_minBounds   |-> IF ink THEN read_metric(s, p + 24 + 2 * MetricBytes, f)
                                           ELSE minB,
                       ink_maxBounds   |-> IF ink THEN read_metric(s, p + 24 + 3 * MetricBytes, f)
                                           ELSE maxB]]

\* A read_accelerators call of main(), for the section type just sought.
ReadAcceleratorsStep(type, next) ==
    LET r == DecodeAccelerators(ifp, read_bytes)
    IN  IF r.err # ""
        THEN Fatal(r.err) /\ UNCHANGED <<curVars, accVars>>
        ELSE /\ format' = r.format
             /\ accelerators' = r.acc
             /\ accelReads' = Append(accelReads, type)
             /\ read_bytes' = r.end
             /\ UNCHANGED <<ifp, outVars>>
             /\ Goto(next)

\* main(): read old accelerators section.
ReadOldAccelerators ==
    /\ pc = "read_accel"
    /\ ReadAcceleratorsStep(PCF_ACCELERATORS, "seek_metrics")
    /\ UNCHANGED <<argVars, tocVars, propVars, metVars, bmpVars, encVars, nameVars>>

\* main(): read BDF style accelerators section.
ReadBdfAccelerators ==
    /\ pc = "read_bdfaccel"
    /\ ReadAcceleratorsStep(PCF_BDF_ACCELERATORS, "write_header")
    /\ UNCHANGED <<argVars, tocVars, propVars, metVars, bmpVars, encVars, nameVars>>

\* ------------------------------------------------------------------------
\* metric_t(): a metric as stored in metrics[], with the fields the later
\* sections fill in.  bitmaps is the offset of the glyph's first byte in the
\* bitmap buffer (-1: the NULL pointer the constructor sets); glyphName.set
\* tells a name pointer from NULL.
NewMetric(r) ==
    [leftSideBearing  |-> r.leftSideBearing,
     rightSideBearing |-> r.rightSideBearing,
     characterWidth   |-> r.characterWidth,
     ascent           |-> r.ascent,
     descent          |-> r.descent,
     attributes       |-> r.attributes,
     bitmaps          |-> -1,
     swidth           |-> 0,
     glyphName        |-> [set |-> FALSE, off |-> 0]]

\* The font bounding box: fontbbx = metrics[0], then reduced over metrics[1..].
RECURSIVE ReduceBbx(_, _, _)
ReduceBbx(bbx, ms, i) ==
    IF i > Len(ms) THEN bbx
    ELSE ReduceBbx(
           [bbx EXCEPT
              !.leftSideBearing =
                  IF ms[i].leftSideBearing < @ THEN ms[i].leftSideBearing ELSE @,
              !.rightSideBearing =
                  IF @ < ms[i].rightSideBearing THEN ms[i].rightSideBearing ELSE @,
              !.ascent = IF @ < ms[i].ascent THEN ms[i].ascent ELSE @,
              !.descent = IF @ < ms[i].descent THEN ms[i].descent ELSE @],
           ms, i + 1)

FontBbx(ms) == ReduceBbx(ms[1], ms, 2)

\* Metrics section decoded at the cursor: the format id selects the full or
\* the compressed form; any other id is fatal.
DecodeMetrics(s, p) ==
    LET f == read_format32_little(s, p)
        compressed == f.id = PCF_COMPRESSED_METRICS
        n == IF compressed THEN read_int16(s, p + 4, f) ELSE read_int32(s, p + 4, f)
        q == IF compressed THEN p + 6 ELSE p + 8
        each == IF compressed THEN CompressedMetricBytes ELSE MetricBytes
    IN  IF Len(s) - p < 4 THEN [err |-> "unexpected eof"]
        ELSE IF ~(f.id = PCF_DEFAULT_FORMAT \/ f.id = PCF_COMPRESSED_METRICS)
        THEN [err |-> "metrics"]
        ELSE IF Len(s) < q THEN [err |-> "unexpected eof"]
        ELSE IF ~(1 <= n) THEN [err |-> "nMetrics is out of range"]
        ELSE IF n > Len(s) \/ Len(s) - q < each * n THEN [err |-> "unexpected eof"]
        ELSE [err |-> "", format |-> f, end |-> q + each * n,
              metrics |-> [i \in 1..n |->
                  NewMetric(IF compressed
                            THEN read_compressed_metric(s, q + each * (i - 1))
                            ELSE read_metric(s, q + each * (i - 1), f))]]

\* main(): read metrics section, then compute the font bounding box.
ReadMetrics ==
    /\ pc = "read_metrics"
    /\ LET r == DecodeMetrics(ifp, read_bytes)
       IN  IF r.err # ""
           THEN Fatal(r.err) /\ UNCHANGED <<curVars, metVars>>
           ELSE /\ format' = r.format
                /\ metrics' = r.metrics
                /\ fontbbx' = FontBbx(r.metrics)
                /\ read_bytes' = r.end
                /\ UNCHANGED <<ifp, outVars>>
                /\ Goto("seek_bitmaps")
    /\ UNCHANGED <<argVars, tocVars, propVars, accVars, bmpVars, encVars, nameVars>>

\* ------------------------------------------------------------------------
\* bit_order_invert: the 16-entry table applied to both nibbles, swapped.
InvertNibble(x) == <<0, 8, 4, 12, 2, 10, 6, 14, 1, 9, 5, 13, 3, 11, 7, 15>>[x + 1]
bit_order_invert(data) ==
    [i \in 1..Len(data) |->
        ((InvertNibble(data[i] % 16) * 16) % 256) + InvertNibble((data[i] \div 16) % 16)]

\* two_byte_swap: pairs swapped, a trailing odd byte untouched.
two_byte_swap(data) ==
    LET size == Len(data) - (Len(data) % 2)
    IN  [i \in 1..Len(data) |->
            IF i > size THEN data[i]
            ELSE IF i % 2 = 1 THEN data[i + 1] ELSE data[i - 1]]

\* four_byte_swap: groups of four reversed, trailing bytes untouched.
four_byte_swap(data) ==
    LET size == Len(data) - (Len(data) % 4)
    IN  [i \in 1..Len(data) |->
            IF i > size THEN data[i]
            ELSE data[4 * ((i - 1) \div 4) + 4 - ((i - 1) % 4)]]

\* The two normalisation passes of the bitmap buffer against BDF_format.
Normalize(data, f) ==
    LET d1 == IF f.bit # BDF_format.bit THEN bit_order_invert(data) ELSE data
        unit == Shl1(IF BDF_format.bit = BDF_format.byte THEN f.scan ELSE BDF_format.scan)
    IN  IF (f.bit = f.byte) # (BDF_format.bit = BDF_format.byte)
        THEN CASE unit = 2 -> two_byte_swap(d1)
               [] unit = 4 -> four_byte_swap(d1)
               [] OTHER -> d1
        ELSE d1

\* A count test that demands equality with the Metrics count.
BitmapCountOk_Equal(n, nm) == n = nm

\* check_int32_min("nBitmaps", nBitmaps, nMetrics): min <= value.
BitmapCountOk(n, nm) == nm <= n

\* Bitmaps section decoded at the cursor; nm is nMetrics.
DecodeBitmaps(s, p, nm) ==
    LET f == read_format32_little(s, p)
        n == read_int32(s, p + 4, f)
        offs == [i \in 1..n |-> read_uint32(s, p + 8 + 4 * (i - 1), f)]
        q == p + 8 + 4 * n
        sizes == [i \in 1..GLYPHPADOPTIONS |-> read_uint32(s, q + 4 * (i - 1), f)]
        size == sizes[f.glyph + 1]
        d == q + 4 * GLYPHPADOPTIONS
    IN  IF Len(s) - p < 4 THEN [err |-> "unexpected eof"]
        ELSE IF f.id # PCF_DEFAULT_FORMAT THEN [err |-> "bitmaps"]
        ELSE IF Len(s) - p < 8 THEN [err |-> "unexpected eof"]
        ELSE IF ~BitmapCountOk(n, nm) THEN [err |-> "nBitmaps is out of range"]
        ELSE IF n > Len(s) \/ Len(s) < d THEN [err |-> "unexpected eof"]
        ELSE IF ~(0 <= size) THEN [err |-> "bitmapSize is out of range"]
        ELSE IF size > Len(s) \/ Len(s) - d < size THEN [err |-> "unexpected eof"]
        ELSE [err |-> "", format |-> f, end |-> d + size, nBitmaps |-> n,
              bitmapOffsets |-> offs, bitmapSizes |-> sizes, bitmapSize |-> size,
              bitmaps |-> Normalize(read_byte8s(s, d, size), f)]

\* main(): read bitmaps section, normalise the buffer, point every metric
\* at its glyph's bytes.
ReadBitmaps ==
    /\ pc = "read_bitmaps"
    /\ LET r == DecodeBitmaps(ifp, read_bytes, nMetrics)
       IN  IF r.err # ""
           THEN Fatal(r.err) /\ UNCHANGED <<curVars, bmpVars, metVars>>
           ELSE /\ format' = r.format
                /\ nBitmaps' = r.nBitmaps
                /\ bitmapOffsets' = r.bitmapOffsets
                /\ bitmapSizes' = r.bitmapSizes
                /\ bitmapSize' = r.bitmapSize
                /\ bitmaps' = r.bitmaps
                /\ metrics' = [i \in 1..nMetrics |->
                                  [metrics[i] EXCEPT !.bitmaps = r.bitmapOffsets[i]]]
                /\ read_bytes' = r.end
                /\ UNCHANGED <<ifp, fontbbx, outVars>>
                /\ Goto("seek_enc")
    /\ UNCHANGED <<argVars, tocVars, propVars, accVars, encVars, nameVars>>

\* ------------------------------------------------------------------------
\* Encodings section decoded at the cursor; valid0 is nValidEncodings so far.
DecodeEncodings(s, p, valid0) ==
    LET f == read_format32_little(s, p)
        fc == ToUint16(read_int16(s, p + 4, f))
        lc == ToUint16(read_int16(s, p + 6, f))
        fr == ToUint16(read_int16(s, p + 8, f))
        lr == ToUint16(read_int16(s, p + 10, f))
        dc == ToUint16(read_int16(s, p + 12, f))
        n == (lc - fc + 1) * (lr - fr + 1)
        cells == [i \in 1..n |-> ToUint16(read_int16(s, p + 14 + 2 * (i - 1), f))]
    IN  IF Len(s) - p < 4 THEN [err |-> "unexpected eof"]
        ELSE IF f.id # PCF_DEFAULT_FORMAT THEN [err |-> "encoding"]
        ELSE IF Len(s) - p < 14 THEN [err |-> "unexpected eof"]
        ELSE IF ~(fc <= lc) THEN [err |-> "firstCol, lastCol"]
        ELSE IF ~(fr <= lr) THEN [err |-> "firstRow, lastRow"]
        ELSE IF lc - fc + 1 > Len(s) \/ lr - fr + 1 > Len(s)
                \/ Len(s) - (p + 14) < 2 * n THEN [err |-> "unexpected eof"]
        ELSE [err |-> "", format |-> f, end |-> p + 14 + 2 * n,
              firstCol |-> fc, lastCol |-> lc, firstRow |-> fr, lastRow |-> lr,
              defaultCh |-> dc, encodings |-> cells,
              nValidEncodings |->
                  valid0 + Cardinality({i \in 1..n : cells[i] # NO_SUCH_CHAR})]

\* main(): read encodings section.
ReadEncodings ==
    /\ pc = "read_enc"
    /\ LET r == DecodeEncodings(ifp, read_bytes, nValidEncodings)
       IN  IF r.err # ""
           THEN Fatal(r.err) /\ UNCHANGED <<curVars, encVars>>
           ELSE /\ format' = r.format
                /\ firstCol' = r.firstCol
                /\ lastCol' = r.lastCol
                /\ firstRow' = r.firstRow
                /\ lastRow' = r.lastRow
                /\ defaultCh' = r.defaultCh
                /\ encodings' = r.encodings
                /\ nValidEncodings' = r.nValidEncodings
                /\ read_bytes' = r.end
                /\ UNCHANGED <<ifp, outVars>>
                /\ Goto("seek_swidths")
    /\ UNCHANGED <<argVars, tocVars, propVars, accVars, metVars, bmpVars, nameVars>>

\* ------------------------------------------------------------------------
\* Swidths section decoded at the cursor; nm is nMetrics.
DecodeSwidths(s, p, nm) ==
    LET f == read_format32_little(s, p)
        n == read_int32(s, p + 4, f)
    IN  IF Len(s) - p < 4 THEN [err |-> "unexpected eof"]
        ELSE IF f.id # PCF_DEFAULT_FORMAT THEN [err |-> "encoding"]
        ELSE IF Len(s) - p < 8 THEN [err |-> "unexpected eof"]
        ELSE IF n # nm THEN [err |-> "nSwidths != nMetrics"]
        ELSE IF n > Len(s) \/ Len(s) - (p + 8) < 4 * n THEN [err |-> "unexpected eof"]
        ELSE [err |-> "", format |-> f, end |-> p + 8 + 4 * n, nSwidths |-> n,
              swidths |-> [i \in 1..n |-> read_int32(s, p + 8 + 4 * (i - 1), f)]]

\* main(): read swidths section.
ReadSwidths ==
    /\ pc = "read_swidths"
    /\ LET r == DecodeSwidths(ifp, read_bytes, nMetrics)
       IN  IF r.err # ""
           THEN Fatal(r.err) /\ UNCHANGED <<curVars, metVars, nameVars>>
           ELSE /\ format' = r.format
                /\ nSwidths' = r.nSwidths
                /\ metrics' = [i \in 1..nMetrics |->
                                  [metrics[i] EXCEPT !.swidth = r.swidths[i]]]
                /\ read_bytes' = r.end
                /\ UNCHANGED <<ifp, fontbbx, nGlyphNames, glyphNamesSize, glyphNames, outVars>>
                /\ Goto("seek_gnames")
    /\ UNCHANGED <<argVars, tocVars, propVars, accVars, bmpVars, encVars>>

\* What (int) of a double that is infinite, not a number or beyond the int
\* range may yield: the conversion is undefined.
UnrepresentableInts == {INT32_MIN, 0, 2147483647}

\* The process dies on a wild read: no exit(), so nothing buffered in ofp is
\* flushed.
Crash ==
    /\ pc' = "exit"
    /\ exitCode' = 139
    /\ diag' = "Segmentation fault"
    /\ UNCHANGED runs
    /\ obuf' = <<>>
    /\ ofp' = "closed"
    /\ UNCHANGED <<outfile_exists, fsExists, fs, stdoutS>>

\* The swidth computed without a Swidths section:
\* (int)(characterWidth / (rx / 72.27) / (p / 1000)) with p = POINT_SIZE / 10.0,
\* in exact arithmetic: characterWidth * 722700 / (rx * POINT_SIZE).
CalcSwidth(cw, rx, ps, undef) ==
    IF rx * ps = 0 THEN undef ELSE CDiv(cw * 722700, rx * ps)

\* main(): no PCF_SWIDTHS: every swidth is computed from RESOLUTION_X (or
\* RESOLUTION when that is absent or not positive) and POINT_SIZE.
CalcSwidths ==
    /\ pc = "calc_swidths"
    /\ \E wild \in WildOutcomes, undef \in UnrepresentableInts :
         LET rxp == get_property_value(RESOLUTION_X, 1, wild)
             rp == get_property_value(RESOLUTION, 1, wild)
             pp == get_property_value(POINT_SIZE, 1, wild)
             useR == rxp.res = "value" /\ rxp.v <= 0
             rx == IF useR THEN CDiv(rp.v * 7227, 10000) ELSE rxp.v
             bad == IF rxp.res # "value" THEN rxp.res
                    ELSE IF useR /\ rp.res # "value" THEN rp.res
                    ELSE IF pp.res # "value" THEN pp.res
                    ELSE ""
         IN  CASE bad = "fatal" ->
                     Fatal("property_value") /\ UNCHANGED <<metVars, nameVars>>
               [] bad = "crash" -> Crash /\ UNCHANGED <<metVars, nameVars>>
               [] OTHER ->
                     /\ nSwidths' = nMetrics
                     /\ metrics' = [i \in 1..nMetrics |->
                           [metrics[i] EXCEPT !.swidth =
                               CalcSwidth(metrics[i].characterWidth, rx, pp.v, undef)]]
                     /\ UNCHANGED <<fontbbx, nGlyphNames, glyphNamesSize, glyphNames, outVars>>
                     /\ Goto("seek_gnames")
    /\ UNCHANGED <<argVars, curVars, tocVars, propVars, accVars, bmpVars, encVars>>

\* ------------------------------------------------------------------------
\* Glyph names section decoded at the cursor; nm is nMetrics.
DecodeGlyphNames(s, p, nm) ==
    LET f == read_format32_little(s, p)
        n == read_int32(s, p + 4, f)
        offs == [i \in 1..n |-> read_int32(s, p + 8 + 4 * (i - 1), f)]
        q == p + 8 + 4 * n
        size == read_int32(s, q, f)
    IN  IF Len(s) - p < 4 THEN [err |-> "unexpected eof"]
        ELSE IF f.id # PCF_DEFAULT_FORMAT THEN [err |-> "encoding"]
        ELSE IF Len(s) - p < 8 THEN [err |-> "unexpected eof"]
        ELSE IF n # nm THEN [err |-> "nGlyphNames != nMetrics"]
        ELSE IF n > Len(s) \/ Len(s) - q < 4 THEN [err |-> "unexpected eof"]
        ELSE IF ~(0 <= size) THEN [err |-> "glyphNamesSize is out of range"]
        ELSE IF size > Len(s) \/ Len(s) - (q + 4) < size THEN [err |-> "unexpected eof"]
        ELSE IF \E i \in 1..n : size <= offs[i] THEN [err |-> "glyphNames"]
        ELSE [err |-> "", format |-> f, end |-> q + 4 + size, nGlyphNames |-> n,
              offs |-> offs, glyphNamesSize |-> size,
              glyphNames |-> read_byte8s(s, q + 4, size) \o <<0>>]

\* main(): read glyph names section.
ReadGlyphNames ==
    /\ pc = "read_gnames"
    /\ LET r == DecodeGlyphNames(ifp, read_bytes, nMetrics)
       IN  IF r.err # ""
           THEN Fatal(r.err) /\ UNCHANGED <<curVars, metVars, nameVars>>
           ELSE /\ format' = r.format
                /\ nGlyphNames' = r.nGlyphNames
                /\ glyphNamesSize' = r.glyphNamesSize
                /\ glyphNames' = r.glyphNames
                /\ metrics' = [i \in 1..nMetrics |->
                       [metrics[i] EXCEPT !.glyphName = [set |-> TRUE, off |-> r.offs[i]]]]
                /\ read_bytes' = r.end
                /\ UNCHANGED <<ifp, fontbbx, nSwidths, outVars>>
                /\ Goto("seek_bdfaccel")
    /\ UNCHANGED <<argVars, tocVars, propVars, accVars, bmpVars, encVars>>

\* ------------------------------------------------------------------------
\* The emitted text, as a sequence of pieces in the order of the fprintf
\* calls: [k |-> "header"], [k |-> "font", name], [k |-> "PointSize", v],
\* [k |-> "WidthHeight", w, h], one [k |-> "glyph", ...] per glyph entry and
\* [k |-> "end"].

\* A main() that writes the header in every run.
WriteHeader_Always ==
    /\ pc = "write_header"
    /\ obuf' = Append(obuf, [k |-> "header"])
    /\ UNCHANGED <<outfile_exists, ofp, fsExists, fs, stdoutS>>
    /\ Goto("write_font")
    /\ UNCHANGED <<argVars, curVars, decVars>>

\* main(): write the aggregate declaration unless the destination existed.
WriteHeader ==
    /\ pc = "write_header"
    /\ obuf' = IF ~outfile_exists THEN Append(obuf, [k |-> "header"]) ELSE obuf
    /\ UNCHANGED <<outfile_exists, ofp, fsExists, fs, stdoutS>>
    /\ Goto("write_font")
    /\ UNCHANGED <<argVars, curVars, decVars>>

\* strrchr(path, '.'): the index of the last '.', 0 when there is none.
LastPeriod(path) ==
    IF \E i \in 1..Len(path) : path[i] = "."
    THEN CHOOSE i \in 1..Len(path) :
             path[i] = "." /\ \A j \in (i + 1)..Len(path) : path[j] # "."
    ELSE 0

\* The path cut at its last '.' (`*period = '\0'`), unchanged without one.
StripExtension(path) ==
    IF LastPeriod(path) = 0 THEN path ELSE SubSeq(path, 1, LastPeriod(path) - 1)

\* main(): fontname = strdup(ifilename); the period is then looked for, and
\* overwritten, in ifilename itself; fontname is what is printed.  With no
\* input path strdup and strrchr are handed NULL.
WriteFont ==
    /\ pc = "write_font"
    /\ \E wild \in WildOutcomes :
         LET fontname == ifilename
             pp == get_property_value(POINT_SIZE, 1, wild)
             line1 == Append(obuf, [k |-> "font", name |-> fontname])
         IN  IF ifilename = NoPath /\ wild = "crash"
             THEN Crash /\ UNCHANGED ifilename
             ELSE /\ ifilename' = IF ifilename = NoPath THEN ifilename
                                  ELSE StripExtension(ifilename)
                  /\ CASE pp.res = "crash" -> Crash
                       [] pp.res = "fatal" ->
                             /\ pc' = "exit"
                             /\ exitCode' = 1
                             /\ diag' = "property_value"
                             /\ UNCHANGED runs
                             /\ obuf' = <<>>
                             /\ ofp' = "closed"
                             /\ fs' = IF ofp = "file" THEN fs \o line1 ELSE fs
                             /\ stdoutS' = IF ofp = "stdout" THEN stdoutS \o line1
                                           ELSE stdoutS
                             /\ UNCHANGED <<outfile_exists, fsExists>>
                       [] OTHER ->
                             /\ obuf' = line1 \o
                                   <<[k |-> "PointSize", v |-> CDiv(pp.v, 10)],
                                     [k |-> "WidthHeight", w |-> widthBits(fontbbx),
                                      h |-> height(fontbbx)]>>
                             /\ UNCHANGED <<outfile_exists, ofp, fsExists, fs, stdoutS>>
                             /\ Goto("write_glyphs")
    /\ UNCHANGED <<ofilename, env, fsExists0, fs0, curVars, decVars>>

\* The byte *b at index ix (0-based) of the bitmap buffer; outside the
\* buffer the read is wild and g stands for what it finds.
BitmapByte(ix, g) == IF 0 <= ix /\ ix < bitmapSize THEN bitmaps[ix + 1] ELSE g

\* The index of the byte read at row r, column c (0-based) of a glyph whose
\* pointer is bitmaps + off, off a uint32: bitmapSize stands for every index
\* at or beyond the end of the buffer.
ByteIndex(off, r, wb, c) ==
    IF off < 0 \/ off >= bitmapSize THEN bitmapSize ELSE off + r * wb + c

\* The rows printed for metric m: widthBytes bytes per row, the first w of
\* them read from the buffer, the others printed as 00; b advances by one
\* per byte either way.
BitmapRows(m, f, g) ==
    LET wb == widthBytes(m, f)
        w0 == CDiv(widthBits(m) + 7, 8)
        w == IF w0 < 1 THEN 1 ELSE w0
    IN  [r \in 1..(IF height(m) > 0 THEN height(m) ELSE 0) |->
            [c \in 1..(IF wb > 0 THEN wb ELSE 0) |->
                IF c - 1 < w THEN BitmapByte(ByteIndex(m.bitmaps, r - 1, wb, c - 1), g)
                ELSE 0]]

\* Whether printing metric m reads outside the bitmap buffer or the glyph
\* names blob.
WildGlyph(m, f) ==
    LET wb == widthBytes(m, f)
        w0 == CDiv(widthBits(m) + 7, 8)
        w == IF w0 < 1 THEN 1 ELSE w0
    IN  \/ m.glyphName.set /\ m.glyphName.off < 0
        \/ \E r \in 1..(IF height(m) > 0 THEN height(m) ELSE 0) :
             \E c \in 1..(IF wb > 0 THEN wb ELSE 0) :
                /\ c - 1 < w
                /\ ByteIndex(m.bitmaps, r - 1, wb, c - 1) >= bitmapSize

\* make_charcode(row, col), stored in a uint16.
make_charcode(row, col) == ToUint16(row * 256 + col)

\* The glyph entry printed for cell i (0-based) of the encoding table.
GlyphEntry(i, f, g) ==
    LET col == (i % (lastCol - firstCol + 1)) + firstCol
        row == (i \div (lastCol - firstCol + 1)) + firstRow
        m == metrics[encodings[i + 1] + 1]
    IN  [k |-> "glyph",
         charcode |-> make_charcode(row, col),
         hasName |-> m.glyphName.set,
         name |-> IF m.glyphName.set /\ m.glyphName.off >= 0
                  THEN CStr(glyphNames, m.glyphName.off) ELSE <<>>,
         StepX |-> m.characterWidth,
         Bounds |-> <<widthBits(m), height(m)>>,
         Offset |-> <<m.leftSideBearing, -m.descent>>,
         Bitmap |-> BitmapRows(m, f, g)]
\* A glyph loop that treats the cells holding glyph index 0 as absent too.
RECURSIVE EmitGlyphs_SkipZero(_, _, _, _, _)
EmitGlyphs_SkipZero(i, out, f, wild, g) ==
    IF i >= nEncodings THEN [err |-> "", out |-> out]
    ELSE IF encodings[i + 1] = NO_SUCH_CHAR \/ encodings[i + 1] = 0
    THEN EmitGlyphs_SkipZero(i + 1, out, f, wild, g)
    ELSE IF ~(encodings[i + 1] < nMetrics) THEN [err |-> "encodings", out |-> out]
    ELSE IF wild = "crash" /\ WildGlyph(metrics[encodings[i + 1] + 1], f)
    THEN [err |-> "crash", out |-> out]
    ELSE EmitGlyphs_SkipZero(i + 1, Append(out, GlyphEntry(i, f, g)), f, wild, g)

\* The glyph loop from cell i on: out is the text so far.  It stops at the
\* first cell whose index is not below nMetrics (error_invalid_exit), and,
\* when wild reads kill the process, at the first glyph that makes one.
RECURSIVE EmitGlyphs(_, _, _, _, _)
EmitGlyphs(i, out, f, wild, g) ==
    IF i >= nEncodings THEN [err |-> "", out |-> out]
    ELSE IF encodings[i + 1] = NO_SUCH_CHAR THEN EmitGlyphs(i + 1, out, f, wild, g)
    ELSE IF ~(encodings[i + 1] < nMetrics) THEN [err |-> "encodings", out |-> out]
    ELSE IF wild = "crash" /\ WildGlyph(metrics[encodings[i + 1] + 1], f)
    THEN [err |-> "crash", out |-> out]
    ELSE EmitGlyphs(i + 1, Append(out, GlyphEntry(i, f, g)), f, wild, g)

\* Bytes a wild read may find.
GarbageBytes == {0, 255}

\* The format whose glyph padding sizes the printed rows: the global format,
\* which holds the format word of the section decoded last.
RowFormat == format

\* main(): the glyph loop, the closing text, return 0.
WriteGlyphs ==
    /\ pc = "write_glyphs"
    /\ \E wild \in WildOutcomes, g \in GarbageBytes :
         LET r == EmitGlyphs(0, obuf, RowFormat, wild, g)
             done == IF r.err = "" THEN Append(r.out, [k |-> "end"]) ELSE r.out
         IN  IF r.err = "crash"
             THEN Crash
             ELSE /\ pc' = "exit"
                  /\ exitCode' = IF r.err = "" THEN 0 ELSE 1
                  /\ diag' = r.err
                  /\ UNCHANGED runs
                  /\ obuf' = <<>>
                  /\ ofp' = "closed"
                  /\ fs' = IF ofp = "file" THEN fs \o done ELSE fs
                  /\ stdoutS' = IF ofp = "stdout" THEN stdoutS \o done ELSE stdoutS
                  /\ UNCHANGED <<outfile_exists, fsExists>>
    /\ UNCHANGED <<argVars, curVars, decVars>>

\* ------------------------------------------------------------------------
\* The inputs the runs are given.  Format words: bit 2 is the byte order,
\* bit 3 the bit order, bits 0-1 the glyph padding exponent, bits 4-5 the
\* scan unit exponent, bits 8.. the format id.
FwMsb(glyph) == 8 + 4 + glyph
FwLsb(glyph) == glyph
FwCompressed == 256 + 8 + 4

Metric(l, r, w, a, d) ==
    [leftSideBearing |-> l, rightSideBearing |-> r, characterWidth |-> w,
     ascent |-> a, descent |-> d, attributes |-> 0]

BaseMetrics == <<Metric(0, 8, 8, 2, 0), Metric(-1, 9, 10, 1, 1)>>

BaseAccel(asc) ==
    [noOverlap |-> 1, constantMetrics |-> 0, terminalFont |-> 0, constantWidth |-> 0,
     inkInside |-> 1, inkMetrics |-> 0, drawDirection |-> 0,
     fontAscent |-> asc, fontDescent |-> 1, maxOverlap |-> 0,
     minBounds |-> Metric(-1, 8, 8, 1, 0), maxBounds |-> Metric(0, 9, 10, 2, 1),
     ink_minBounds |-> Metric(0, 7, 8, 1, 0), ink_maxBounds |-> Metric(0, 8, 10, 2, 1)]

\* "POINT_SIZE\0RESOLUTION_X\0"
BaseBlob == POINT_SIZE \o <<0>> \o RESOLUTION_X \o <<0>>

BaseProps ==
    <<[name |-> 0, isStringProp |-> FALSE, value |-> 100],
      [name |-> 11, isStringProp |-> FALSE, value |-> 75]>>

\* The bitmap buffer of BaseMetrics for a glyph padding of 1, 2, 4, 8 bytes:
\* two rows per glyph.
BaseBitmapSizes == <<6, 8, 16, 32>>
BaseBitmapOffsets(glyph) == <<0, 2 * Shl1(glyph)>>
BaseBitmapData(glyph) == [k \in 1..BaseBitmapSizes[glyph + 1] |-> 128 + k]

\* "A\0B\0"
BaseNames == <<65, 0, 66, 0>>

BaseBody(fw) ==
    (PCF_PROPERTIES :> PropertiesWire(fw, BaseProps, BaseBlob))
    @@ (PCF_ACCELERATORS :> AcceleratorsWire(fw, BaseAccel(7)))
    @@ (PCF_METRICS :> MetricsWire(fw, 2, BaseMetrics))
    @@ (PCF_BITMAPS :> BitmapsWire(fw, 2, BaseBitmapOffsets(fw % 4), BaseBitmapSizes,
                                   BaseBitmapData(fw % 4)))
    @@ (PCF_BDF_ENCODINGS :> EncodingsWire(fw, 65, 67, 0, 0, 65, <<0, NO_SUCH_CHAR, 1>>))
    @@ (PCF_SWIDTHS :> SwidthsWire(fw, 2, <<500, 600>>))
    @@ (PCF_GLYPH_NAMES :> GlyphNamesWire(fw, 2, <<0, 2>>, BaseNames))
    @@ (PCF_BDF_ACCELERATORS :> AcceleratorsWire(fw + 256, BaseAccel(9)))

\* The five required sections in the order main() reads them.
ReadOrder ==
    <<PCF_PROPERTIES, PCF_ACCELERATORS, PCF_METRICS, PCF_BITMAPS, PCF_BDF_ENCODINGS>>

TocOf(types) == [i \in 1..Len(types) |-> [type |-> types[i], delta |-> 0]]

\* The description of a well-formed container with the required sections.
Base ==
    [magic |-> PcfMagic, toc |-> TocOf(ReadOrder), gap |-> 0, order |-> ReadOrder,
     body |-> BaseBody(FwMsb(2)), cut |-> 0]

Mk(c) == Container(c.magic, c.toc, c.gap, c.order, c.body, c.cut)

APcf == <<"a", ".", "p", "c", "f">>
OutGo == <<"o", ".", "g", "o">>

\* One run's input: the arguments and what the run finds.
Input(path, out, file) ==
    [path |-> path, out |-> out, exists |-> TRUE, writable |-> TRUE,
     file |-> file, unzipped |-> <<>>]

\* All orders of the elements of a sequence without repetitions.
Perms(q) ==
    {p \in [1..Len(q) -> {q[i] : i \in 1..Len(q)}] :
        \A i, j \in 1..Len(q) : p[i] = p[j] => i = j}

Reverse(q) == [i \in 1..Len(q) |-> q[Len(q) + 1 - i]]

\* The required sections with BDF accelerators instead of the old ones, in
\* the order main() reads them.
BdfReadOrder ==
    <<PCF_PROPERTIES, PCF_METRICS, PCF_BITMAPS, PCF_BDF_ENCODINGS, PCF_BDF_ACCELERATORS>>

\* Every section main() reads, in the order it reads them.
FullOrder ==
    <<PCF_PROPERTIES, PCF_ACCELERATORS, PCF_METRICS, PCF_BITMAPS, PCF_BDF_ENCODINGS,
      PCF_SWIDTHS, PCF_GLYPH_NAMES, PCF_BDF_ACCELERATORS>>

Full == [Base EXCEPT !.toc = TocOf(FullOrder), !.order = FullOrder]

\* Containers whose sections lie in the file in every order, listed in the
\* table of contents in reading order or in the reverse of it.
OrderContainers ==
    {[Base EXCEPT !.order = o, !.toc = TocOf(t)] :
        o \in Perms(ReadOrder), t \in {ReadOrder, Reverse(ReadOrder)}}
    \cup {[Base EXCEPT !.order = o, !.toc = TocOf(Reverse(BdfReadOrder))] :
             o \in Perms(BdfReadOrder)}

\* Unused bytes in front of every section, up to MaxGap.
MaxGap == 2

\* Table-of-contents offsets that miss the start of their section: behind
\* it, ahead of it, beyond the end of the file, and far below zero.
Deltas == {-1, 1, 400, INT32_MIN}

WithDelta(toc, i, d) == [toc EXCEPT ![i] = [type |-> toc[i].type, delta |-> d]]

SeekContainers ==
    {[Full EXCEPT !.gap = g] : g \in 0..MaxGap}
    \cup {[Base EXCEPT !.gap = g] : g \in 0..MaxGap}
    \cup {[Full EXCEPT !.gap = 1, !.toc = WithDelta(TocOf(FullOrder), i, d)] :
             i \in 1..Len(FullOrder), d \in Deltas}
    \cup {[Base EXCEPT !.toc = WithDelta(TocOf(ReadOrder), i, d)] :
             i \in 1..Len(ReadOrder), d \in Deltas}
    \cup {[Base EXCEPT !.order = <<PCF_BDF_ENCODINGS>> \o SubSeq(ReadOrder, 1, 4),
                       !.toc = WithDelta(TocOf(ReadOrder), 5, INT32_MIN)]}
    \cup {[Base EXCEPT !.toc = <<[type |-> PCF_PROPERTIES, delta |-> 0],
                                 [type |-> PCF_ACCELERATORS, delta |-> 0],
                                 [type |-> PCF_METRICS, delta |-> d1],
                                 [type |-> PCF_METRICS, delta |-> d2],
                                 [type |-> PCF_BITMAPS, delta |-> 0],
                                 [type |-> PCF_BDF_ENCODINGS, delta |-> 0]>>] :
             d1 \in {0, 5, -200}, d2 \in {0, 5}}

\* A sequence without its i-th element.
Without(q, i) == SubSeq(q, 1, i - 1) \o SubSeq(q, i + 1, Len(q))

\* Containers that list, and hold, all sections but one; or no section.
MissingContainers ==
    {[Full EXCEPT !.toc = TocOf(Without(FullOrder, i))] : i \in 1..Len(FullOrder)}
    \cup {[Base EXCEPT !.toc = TocOf(Without(ReadOrder, i))] : i \in 1..Len(ReadOrder)}
    \cup {[Base EXCEPT !.toc = <<>>]}

\* The two accelerator sections: either, both in either file order, with
\* each format id.
AccelContainers ==
    {[Base EXCEPT !.order = o, !.toc = TocOf(t),
                  !.body = [@ EXCEPT ![PCF_ACCELERATORS] =
                                         AcceleratorsWire(FwMsb(2) + 256 * id, BaseAccel(7)),
                                     ![PCF_BDF_ACCELERATORS] =
                                         AcceleratorsWire(FwLsb(0) + 256 * id, BaseAccel(9))]] :
        o \in {ReadOrder, BdfReadOrder, ReadOrder \o <<PCF_BDF_ACCELERATORS>>,
               BdfReadOrder \o <<PCF_ACCELERATORS>>,
               <<PCF_PROPERTIES, PCF_METRICS, PCF_ACCELERATORS, PCF_BITMAPS,
                 PCF_BDF_ENCODINGS, PCF_BDF_ACCELERATORS>>},
        t \in {ReadOrder, BdfReadOrder, ReadOrder \o <<PCF_BDF_ACCELERATORS>>,
               <<PCF_BDF_ACCELERATORS>> \o ReadOrder},
        id \in 0..2}

\* Format words: the byte and bit order, the glyph padding and the scan unit
\* of the Bitmaps section, against those of the sections decoded after it.
BitmapFormats ==
    {FwMsb(g) : g \in 0..3} \cup {FwLsb(g) : g \in 0..3}
    \cup {FwMsb(1) + 16, FwLsb(2) + 32, 4 + 1 + 16, 8 + 2 + 32, 8 + 2 + 16, 4 + 48}

LaterFormats == {FwMsb(2), FwMsb(0), FwLsb(3)}

FormatContainers ==
    {[Full EXCEPT !.body = [@ EXCEPT
          ![PCF_BITMAPS] = BitmapsWire(bf, 2, BaseBitmapOffsets(bf % 4), BaseBitmapSizes,
                                       BaseBitmapData(bf % 4)),
          ![PCF_BDF_ENCODINGS] = BaseBody(lf)[PCF_BDF_ENCODINGS],
          ![PCF_SWIDTHS] = BaseBody(lf)[PCF_SWIDTHS],
          ![PCF_GLYPH_NAMES] = BaseBody(lf)[PCF_GLYPH_NAMES]],
        !.toc = TocOf(t), !.order = t] :
        bf \in BitmapFormats, lf \in LaterFormats,
        t \in {ReadOrder, SubSeq(FullOrder, 1, 7)}}

\* Glyphs per font, at most.
MaxGlyphs == 2

\* Bitmaps sections for the two glyphs of BaseMetrics: the declared count
\* around the Metrics count, offsets inside and outside the buffer, and the
\* buffer size that the format selects.
BitmapOffsetChoices ==
    {<<0, 8>>, <<8, 0>>, <<0, 0>>, <<0, 9>>, <<0, 12>>, <<0, 16>>, <<0, -1>>, <<2147483647, 0>>}

BitmapContainers ==
    {[Base EXCEPT !.body = [@ EXCEPT ![PCF_BITMAPS] =
          BitmapsWire(FwMsb(2), n, [i \in 1..n |-> 8 * (i - 1)], BaseBitmapSizes,
                      BaseBitmapData(2))]] : n \in 0..(MaxGlyphs + 2)}
    \cup {[Base EXCEPT !.body = [@ EXCEPT ![PCF_BITMAPS] =
          BitmapsWire(FwMsb(2), 2, offs, <<6, 8, size, 32>>, BaseBitmapData(2))]] :
             offs \in BitmapOffsetChoices, size \in {16, 15, 8, 0, 17, -1}}

\* Extreme values of the signed 16-bit metric fields.
Int16Extremes == {-32767 - 1, 0, 32767}

\* A font of n metrics and no mapped glyph: every encoding cell is the
\* sentinel.
Unmapped(fw, ms) ==
    [Base EXCEPT !.body = [@ EXCEPT
        ![PCF_METRICS] = MetricsWire(fw, Len(ms), ms),
        ![PCF_BITMAPS] = BitmapsWire(FwMsb(2), Len(ms), [i \in 1..Len(ms) |-> 0],
                                     BaseBitmapSizes, BaseBitmapData(2)),
        ![PCF_BDF_ENCODINGS] =
            EncodingsWire(FwMsb(2), 65, 66, 0, 0, 65, <<NO_SUCH_CHAR, NO_SUCH_CHAR>>)]]

MetricContainers ==
    {Unmapped(FwMsb(2), [i \in 1..n |-> Metric(h[i][1], h[i][2], 8, 2, 1)]) :
        n \in 1..MaxGlyphs,
        h \in [1..MaxGlyphs -> Int16Extremes \X Int16Extremes]}
    \cup {Unmapped(FwLsb(0), [i \in 1..n |-> Metric(0, 8, 8, v[i][1], v[i][2])]) :
        n \in 1..MaxGlyphs,
        v \in [1..MaxGlyphs -> Int16Extremes \X Int16Extremes]}
    \cup {Unmapped(FwCompressed, [i \in 1..n |-> Metric(c[i][1], c[i][2], 8, c[i][2], c[i][1])]) :
        n \in 1..MaxGlyphs,
        c \in [1..MaxGlyphs -> {-128, 0, 127} \X {-128, 5, 127}]}
    \cup {[Base EXCEPT !.body = [@ EXCEPT ![PCF_METRICS] = MetricsWire(fw, n, BaseMetrics)]] :
             fw \in {FwMsb(2), FwLsb(1), FwCompressed, FwCompressed - 4, 512 + 8},
             n \in {-1, 0, 1, 2, 3}}

\* Encoding tables: mapped, unmapped and out-of-range cells, several rows,
\* bounds out of order, a single column of 257 rows.
EncContainers ==
    {[Base EXCEPT !.body = [@ EXCEPT ![PCF_BDF_ENCODINGS] =
          EncodingsWire(fw, 65, 66, r, r + 1, 65, cells)]] :
        fw \in {FwMsb(2), FwLsb(2)}, r \in {0, 255},
        cells \in [1..4 -> {0, 2, NO_SUCH_CHAR}]}
    \cup {[Base EXCEPT !.body = [@ EXCEPT ![PCF_BDF_ENCODINGS] =
          EncodingsWire(FwMsb(2), b[1], b[2], b[3], b[4], 0, <<1, 0>>)]] :
        b \in {<<66, 65, 0, 0>>, <<65, 65, 1, 0>>, <<65, 66, 0, 0>>, <<65, 65, 0, 1>>,
               <<255, 256, 0, 0>>, <<0, 0, 255, 256>>, <<65535, 65535, 65534, 65535>>,
               <<0, 65535, 0, 65535>>}}
    \cup {[Base EXCEPT !.body = [@ EXCEPT ![PCF_BDF_ENCODINGS] =
          EncodingsWire(256 + 8, 65, 66, 0, 0, 65, <<0, 1>>)]]}
    \cup {[Base EXCEPT !.body = [@ EXCEPT ![PCF_BDF_ENCODINGS] =
          EncodingsWire(FwMsb(2), 65, 65, 0, 256, 65,
              [i \in 1..257 |-> IF i = 1 THEN 0 ELSE IF i = 257 THEN 1
                                ELSE NO_SUCH_CHAR])]]}

\* "POINT_SIZE\0RESOLUTION\0FONT\0"
OtherBlob == POINT_SIZE \o <<0>> \o RESOLUTION \o <<0>> \o <<70, 79, 78, 84, 0>>

\* Property tables: names and values inside and outside the blob, string
\* and integer values under the names main() looks up.
PropContainers ==
    {[Full EXCEPT !.toc = TocOf(t), !.order = t,
                  !.body = [@ EXCEPT ![PCF_PROPERTIES] =
          PropertiesWire(FwMsb(2),
              <<[name |-> n1, isStringProp |-> s1, value |-> v1],
                [name |-> 11, isStringProp |-> FALSE, value |-> 75]>>, BaseBlob)]] :
        t \in {ReadOrder, SubSeq(FullOrder, 1, 6)},
        n1 \in {0, 11, 10, 23, 24, -1, INT32_MIN}, s1 \in BOOLEAN, v1 \in {100, 0, 24, -1}}
    \cup {[Base EXCEPT !.body = [@ EXCEPT ![PCF_PROPERTIES] =
          PropertiesWire(fw,
              [i \in 1..n |-> [name |-> IF i = 1 THEN 11 ELSE IF i = 2 THEN 0 ELSE 22,
                               isStringProp |-> i = 3,
                               value |-> IF i = 1 THEN r ELSE IF i = 2 THEN 120 ELSE 0]],
              OtherBlob)]] :
        fw \in {FwMsb(2), FwLsb(0), 256}, n \in 0..3, r \in {0, 100, -1, 7500}}

\* Glyph Names sections for the two glyphs of BaseMetrics: offsets inside
\* the 4-byte blob, at its end, beyond it and negative; a count that is not
\* the Metrics count.
NameContainers ==
    {[Full EXCEPT !.body = [@ EXCEPT ![PCF_GLYPH_NAMES] =
          GlyphNamesWire(fw, 2, offs, BaseNames)]] :
        fw \in {FwMsb(2), FwLsb(0)},
        offs \in {<<0, 2>>, <<2, 0>>, <<3, 3>>, <<0, 4>>, <<5, 0>>, <<0, -1>>,
                  <<INT32_MIN, 0>>, <<2147483647, 0>>}}
    \cup {[Full EXCEPT !.body = [@ EXCEPT ![PCF_GLYPH_NAMES] =
          GlyphNamesWire(FwMsb(2), n, [i \in 1..n |-> 0], BaseNames)]] : n \in {1, 3}}

\* Every description of a container.
Containers ==
    OrderContainers \cup SeekContainers \cup MissingContainers \cup AccelContainers
    \cup FormatContainers \cup BitmapContainers \cup MetricContainers
    \cup EncContainers \cup PropContainers \cup NameContainers

\* Bytes missing from the end of a truncated file.
Cuts == {1, 2, 6, 14, 21, 40, 69, 101, 150, 203, 205, 284, 288, 291, 292}

BadMagic == <<1, 102, 99, 113>>
GzipMagic == <<31, 139, 8, 0>>
CompressMagic == <<31, 157, 144, 0>>

DirFile == <<"d", ".", "x", "/", "f">>
Plain == <<"f">>
Dotted == <<"a", ".", "b", ".", "c">>

\* What the runs find besides a container given by path: truncated and
\* foreign files, compressed files and what gzip -dc makes of them, a
\* missing file, standard input, each kind of path, a destination that
\* cannot be opened.
EnvInputs ==
    {Input(APcf, NoPath, Mk([Base EXCEPT !.cut = n])) : n \in Cuts}
    \cup {Input(APcf, NoPath, Mk([Base EXCEPT !.magic = m])) :
             m \in {BadMagic, GzipMagic, CompressMagic}}
    \cup {[Input(p, NoPath, z \o <<1, 2, 3>>) EXCEPT !.unzipped = u] :
             p \in {APcf, NoPath}, z \in {GzipMagic, CompressMagic},
             u \in {Mk(Base), <<>>, <<1, 102>>, Mk([Base EXCEPT !.magic = BadMagic])}}
    \cup {[Input(APcf, o, Mk(Base)) EXCEPT !.exists = FALSE] : o \in {NoPath, OutGo}}
    \cup {[Input(APcf, OutGo, Mk(Base)) EXCEPT !.writable = FALSE]}
    \cup {Input(p, o, Mk(c)) : p \in {NoPath, APcf, DirFile, Plain, Dotted},
                               o \in {NoPath, OutGo}, c \in {Base, Full}}
    \cup {Input(NoPath, NoPath, f) : f \in {<<>>, <<1, 102, 99>>}}

\* Containers for the later runs: two that decode and emit, one of a foreign
\* format, one that lacks its Metrics, one laid out backward, one whose
\* encoding table points outside Metrics, one whose POINT_SIZE is a string.
LaterContainers ==
    {Base, Full,
     [Base EXCEPT !.magic = BadMagic],
     [Base EXCEPT !.toc = TocOf(Without(ReadOrder, 3))],
     [Base EXCEPT !.order = Reverse(ReadOrder)],
     [Base EXCEPT !.body = [@ EXCEPT ![PCF_BDF_ENCODINGS] =
          EncodingsWire(FwMsb(2), 65, 66, 0, 0, 65, <<1, 2>>)]],
     [Full EXCEPT !.body = [@ EXCEPT ![PCF_PROPERTIES] =
          PropertiesWire(FwMsb(2),
              <<[name |-> 11, isStringProp |-> FALSE, value |-> 75],
                [name |-> 0, isStringProp |-> TRUE, value |-> 0]>>, BaseBlob)]]}

\* The first run is given every container by path with the output on
\* stdout, the other inputs above, and the later runs' containers with -o.
FirstInputs ==
    {Input(APcf, NoPath, Mk(c)) : c \in Containers}
    \cup EnvInputs
    \cup {Input(APcf, OutGo, Mk(c)) : c \in LaterContainers}

LaterInputs ==
    {Input(APcf, OutGo, Mk(c)) : c \in LaterContainers}
    \cup {Input(p, o, Mk(Base)) : p \in {NoPath, DirFile, Plain}, o \in {NoPath, OutGo}}
    \cup {[Input(APcf, OutGo, Mk(Base)) EXCEPT !.writable = FALSE]}

\* Invocations modelled one after the other on the same file system.
MaxRuns == 2

\* A process starts: the globals are zero, nothing is open.
StartRun(in) ==
    /\ ifilename = in.path
    /\ ofilename = in.out
    /\ env = [path |-> in.path, exists |-> in.exists, writable |-> in.writable,
              file |-> in.file, unzipped |-> in.unzipped]
    /\ pc = "open_in"
    /\ exitCode = 0
    /\ diag = ""
    /\ ifp = <<>>
    /\ read_bytes = 0
    /\ format = FormatOf(0)
    /\ version = 0
    /\ tables = <<>>
    /\ props = <<>>
    /\ stringSize = 0
    /\ string = <<>>
    /\ accelerators = <<>>
    /\ accelReads = <<>>
    /\ metrics = <<>>
    /\ fontbbx = <<>>
    /\ nBitmaps = 0
    /\ bitmapOffsets = <<>>
    /\ bitmapSizes = <<>>
    /\ bitmapSize = 0
    /\ bitmaps = <<>>
    /\ firstCol = 0
    /\ lastCol = 0
    /\ firstRow = 0
    /\ lastRow = 0
    /\ defaultCh = 0
    /\ encodings = <<>>
    /\ nValidEncodings = 0
    /\ nSwidths = 0
    /\ nGlyphNames = 0
    /\ glyphNamesSize = 0
    /\ glyphNames = <<>>
    /\ outfile_exists = FALSE
    /\ ofp = "closed"
    /\ obuf = <<>>
    /\ stdoutS = <<>>

\* The same, as the step that starts a later process.
RestartRun(in) ==
    /\ ifilename' = in.path
    /\ ofilename' = in.out
    /\ env' = [path |-> in.path, exists |-> in.exists, writable |-> in.writable,
               file |-> in.file, unzipped |-> in.unzipped]
    /\ pc' = "open_in"
    /\ exitCode' = 0
    /\ diag' = ""
    /\ ifp' = <<>>
    /\ read_bytes' = 0
    /\ format' = FormatOf(0)
    /\ version' = 0
    /\ tables' = <<>>
    /\ props' = <<>>
    /\ stringSize' = 0
    /\ string' = <<>>
    /\ accelerators' = <<>>
    /\ accelReads' = <<>>
    /\ metrics' = <<>>
    /\ fontbbx' = <<>>
    /\ nBitmaps' = 0
    /\ bitmapOffsets' = <<>>
    /\ bitmapSizes' = <<>>
    /\ bitmapSize' = 0
    /\ bitmaps' = <<>>
    /\ firstCol' = 0
    /\ lastCol' = 0
    /\ firstRow' = 0
    /\ lastRow' = 0
    /\ defaultCh' = 0
    /\ encodings' = <<>>
    /\ nValidEncodings' = 0
    /\ nSwidths' = 0
    /\ nGlyphNames' = 0
    /\ glyphNamesSize' = 0
    /\ glyphNames' = <<>>
    /\ outfile_exists' = FALSE
    /\ ofp' = "closed"
    /\ obuf' = <<>>
    /\ stdoutS' = <<>>

Init ==
    /\ runs = 1
    /\ fsExists = FALSE
    /\ fs = <<>>
    /\ fsExists0 = FALSE
    /\ fs0 = <<>>
    /\ \E in \in FirstInputs : StartRun(in)

\* The next invocation, on the file system the earlier ones left.
NextRun ==
    /\ pc = "exit"
    /\ runs < MaxRuns
    /\ runs' = runs + 1
    /\ UNCHANGED <<fsExists, fs>>
    /\ fsExists0' = fsExists
    /\ fs0' = fs
    /\ \E in \in LaterInputs : RestartRun(in)

Next ==
    \/ OpenInput
    \/ OpenOutput
    \/ ReadToc
    \/ SeekProperties
    \/ ReadProperties
    \/ SeekOldAccelerators
    \/ ReadOldAccelerators
    \/ SeekMetrics
    \/ ReadMetrics
    \/ SeekBitmaps
    \/ ReadBitmaps
    \/ SeekEncodings
    \/ ReadEncodings
    \/ SeekSwidths
    \/ ReadSwidths
    \/ CalcSwidths
    \/ SeekGlyphNames
    \/ ReadGlyphNames
    \/ SeekBdfAccelerators
    \/ ReadBdfAccelerators
    \/ WriteHeader
    \/ WriteFont
    \/ WriteGlyphs
    \/ NextRun

Spec == Init /\ [][Next]_vars

-----------------------------------------------------------------------------
\* Vocabulary of the properties.

\* The phases in which main() calls seek(), the type each one looks for and
\* the phase entered when seek() returns true.
SeekPhases ==
    {"seek_props", "seek_accel", "seek_metrics", "seek_bitmaps", "seek_enc",
     "seek_swidths", "seek_gnames", "seek_bdfaccel"}

SeekType(p) ==
    CASE p = "seek_props" -> PCF_PROPERTIES
      [] p = "seek_accel" -> PCF_ACCELERATORS
      [] p = "seek_metrics" -> PCF_METRICS
      [] p = "seek_bitmaps" -> PCF_BITMAPS
      [] p = "seek_enc" -> PCF_BDF_ENCODINGS
      [] p = "seek_swidths" -> PCF_SWIDTHS
      [] p = "seek_gnames" -> PCF_GLYPH_NAMES
      [] OTHER -> PCF_BDF_ACCELERATORS

FoundPhase(p) ==
    CASE p = "seek_props" -> "read_props"
      [] p = "seek_accel" -> "read_accel"
      [] p = "seek_metrics" -> "read_metrics"
      [] p = "seek_bitmaps" -> "read_bitmaps"
      [] p = "seek_enc" -> "read_enc"
      [] p = "seek_swidths" -> "read_swidths"
      [] p = "seek_gnames" -> "read_gnames"
      [] OTHER -> "read_bdfaccel"

\* seek() is called in the current phase.
SeekCalled ==
    /\ pc \in SeekPhases
    /\ pc = "seek_accel" => ~is_exist_section(PCF_BDF_ACCELERATORS)

\* The offset the ToC gives for a listed type (its first entry).
Off(type) == tables[TableIndex(type)].offset

\* The phases after the decode pass, and the ones after the Bitmaps decoder.
EmitPhases == {"write_header", "write_font", "write_glyphs"}

PostBitmapsPhases ==
    {"seek_enc", "read_enc", "seek_swidths", "read_swidths", "calc_swidths",
     "seek_gnames", "read_gnames", "seek_bdfaccel", "read_bdfaccel"}
        \cup EmitPhases

\* The sections main() reads of the ones the ToC lists, in the order it
\* reads them.
SectionsRead ==
    SelectSeq(<<PCF_PROPERTIES, PCF_ACCELERATORS, PCF_METRICS, PCF_BITMAPS,
                PCF_BDF_ENCODINGS, PCF_SWIDTHS, PCF_GLYPH_NAMES,
                PCF_BDF_ACCELERATORS>>,
              LAMBDA t : /\ is_exist_section(t)
                         /\ t = PCF_ACCELERATORS =>
                                ~is_exist_section(PCF_BDF_ACCELERATORS))

\* The sections lie in the file in the order they are read.
InReadOrder ==
    \A k \in 1..(Len(SectionsRead) - 1) :
        Off(SectionsRead[k]) < Off(SectionsRead[k + 1])

\* What the current run has written to its output.
RunOutput ==
    IF ofilename = NoPath THEN stdoutS ELSE SubSeq(fs, Len(fs0) + 1, Len(fs))

\* Well-formed uncompressed containers: valid magic, valid ToC, every
\* section well-formed, the sections at every permutation of file offsets.
WellFormedFiles == {Mk(c) : c \in OrderContainers}

-----------------------------------------------------------------------------
C2_AnyFileOrder ==
    (pc = "exit" /\ env.file \in WellFormedFiles /\ tables # <<>>) =>
        exitCode # 1

\* C2, amended.  Sections are found by type, so the ToC may list them in any
\* order; but the decode pass of a well-formed container completes only
\* when the sections lie in the file in the order main() reads them, and
\* with any other permutation of the file offsets the run aborts on the
\* backward seek.
C2_ForwardOnly ==
    (env.file \in WellFormedFiles /\ tables # <<>>) =>
        /\ pc \in EmitPhases => InReadOrder
        /\ (pc = "exit" /\ exitCode = 1) => (~InReadOrder /\ diag = "seek")

\* The decode pass has completed on a container whose ToC lists the
\* sections in the reverse of the order they are read and lie in.
C2_Witness ==
    /\ pc = "write_header"
    /\ env.file \in WellFormedFiles
    /\ tables[1].type = PCF_BDF_ENCODINGS
    /\ tables[nTables].type = PCF_PROPERTIES
    /\ InReadOrder

\* A font entry: its key, its two font-wide fields, its glyphs, its end.
IsFontEntry(e) ==
    /\ Len(e) >= 4
    /\ e[1].k = "font"
    /\ e[2].k = "PointSize"
    /\ e[3].k = "WidthHeight"
    /\ \A i \in 4..(Len(e) - 1) : e[i].k = "glyph"
    /\ e[Len(e)].k = "end"

C4_OneAccelerators ==
    /\ (pc \in EmitPhases \/ (pc = "exit" /\ exitCode = 0)) =>
          accelReads = <<IF is_exist_section(PCF_BDF_ACCELERATORS)
                         THEN PCF_BDF_ACCELERATORS ELSE PCF_ACCELERATORS>>
    /\ (tables # <<>> /\ is_exist_section(PCF_BDF_ACCELERATORS)) =>
          \A k \in 1..Len(accelReads) : accelReads[k] # PCF_ACCELERATORS
    /\ (tables # <<>> /\ ~is_exist_section(PCF_BDF_ACCELERATORS)
                      /\ ~is_exist_section(PCF_ACCELERATORS)) =>
          /\ pc \in {"seek_props", "read_props", "seek_accel", "exit"}
          /\ pc = "exit" => exitCode = 1
          /\ metrics = <<>>

\* A run has completed on a container that lists both Accelerators
\* sections, having read the BDF one only.
C4_Witness ==
    /\ pc = "exit"
    /\ exitCode = 0
    /\ is_exist_section(PCF_ACCELERATORS)
    /\ is_exist_section(PCF_BDF_ACCELERATORS)
    /\ accelReads = <<PCF_BDF_ACCELERATORS>>

\* The format descriptor of the Bitmaps section, as the file holds it, and
\* the glyph count that section declares.
BitmapsFormat == read_format32_little(ifp, Off(PCF_BITMAPS))

DeclaredBitmapCount == read_int32(ifp, Off(PCF_BITMAPS) + 4, BitmapsFormat)

\* The glyph entries the current run has written.
GlyphsWritten ==
    {k \in 1..Len(RunOutput) : RunOutput[k].k = "glyph"}

\* C5 as stated.  Every bitmap row of every emitted glyph is
\* rowBytes(widthBits, P) bytes long, P the glyph padding of the Bitmaps
\* section's own format descriptor, and its bytes at positions
\* max(1, ceil(widthBits / 8)) and beyond are zero, whatever format words
\* the sections decoded after Bitmaps carry.
C5_RowsUseBitmapsPad ==
    pc = "exit" =>
        \A k \in GlyphsWritten :
            LET e == RunOutput[k]
                rowBytes == bytesPerRow(e.Bounds[1], Shl1(BitmapsFormat.glyph))
                w0 == CDiv(e.Bounds[1] + 7, 8)
                w == IF w0 < 1 THEN 1 ELSE w0
            IN  \A r \in 1..Len(e.Bitmap) :
                    /\ Len(e.Bitmap[r]) = rowBytes
                    /\ \A c \in 1..Len(e.Bitmap[r]) :
                          c - 1 >= w => e.Bitmap[r][c] = 0

\* The bytes of the bitmap buffer a glyph's rows take, rows padded as the
\* Bitmaps section pads them.
SliceBytes(m) ==
    IF widthBytes(m, BitmapsFormat) <= 0 \/ height(m) <= 0 THEN 0
    ELSE widthBytes(m, BitmapsFormat) * height(m)

\* C6 as stated.  In a run that does not abort, the slice of every glyph of
\* Metrics lies inside the bitmap buffer: offset[i] is not negative and
\* offset[i] + rowBytes * height is at most bitmapSize.
C6_SlicesInBuffer ==
    (pc = "exit" /\ exitCode = 0) =>
        \A i \in 1..nMetrics :
            /\ 0 <= bitmapOffsets[i]
            /\ bitmapOffsets[i] <= bitmapSize
            /\ SliceBytes(metrics[i]) <= bitmapSize - bitmapOffsets[i]

\* C7 as stated.  A Bitmaps section whose declared count differs from
\* nMetrics never gets its offset array read: past the Bitmaps decoder the
\* two counts are equal.
C7_CountEqual ==
    pc \in PostBitmapsPhases => nBitmaps = nMetrics

\* C7, amended.  The Bitmaps decoder requires the declared count to be at
\* least the Metrics count.  A smaller count aborts the run before the
\* offset array is read; a larger one is accepted, the whole offset array is
\* read and its first nMetrics offsets are the glyphs'.
C7_CountAtLeast ==
    /\ pc \in PostBitmapsPhases =>
          /\ nBitmaps = DeclaredBitmapCount
          /\ nMetrics <= nBitmaps
          /\ Len(bitmapOffsets) = nBitmaps
          /\ \A i \in 1..nMetrics : metrics[i].bitmaps = bitmapOffsets[i]
    /\ (pc = "exit" /\ diag = "nBitmaps is out of range") =>
          /\ exitCode = 1
          /\ DeclaredBitmapCount < nMetrics
          /\ bitmapOffsets = <<>>

\* A Bitmaps section declaring more glyphs than Metrics has been decoded.
C7_Witness ==
    /\ pc = "seek_enc"
    /\ nMetrics > 0
    /\ nBitmaps > nMetrics
    /\ Len(bitmapOffsets) = nBitmaps

\* C8 as stated.  The name a font entry is emitted under is the input path
\* cut at its last '.', and the path itself when it has none.
C8_KeyStripped ==
    (pc = "exit" /\ exitCode = 0 /\ env.path # NoPath) =>
        \A k \in 1..Len(RunOutput) :
            RunOutput[k].k = "font" =>
                RunOutput[k].name = StripExtension(env.path)

\* Well-formed uncompressed containers laid out in read order.
ReadOrderFiles == {Mk(Base), Mk(Full)}

\* C9 as stated.  With the input path omitted, a well-formed uncompressed
\* container on standard input is decoded and emitted to completion, and
\* the process exits with code 0.
C9_StdinCompletes ==
    (pc = "exit" /\ env.path = NoPath /\ env.file \in ReadOrderFiles) =>
        /\ exitCode = 0
        /\ \E k \in 1..Len(RunOutput) : RunOutput[k].k = "end"

\* The largest and the smallest of a non-empty finite set of integers.
MaxOf(S) == CHOOSE x \in S : \A y \in S : y <= x

MinOf(S) == CHOOSE x \in S : \A y \in S : x <= y

\* C10 as stated.  The emitted Width is max(rightBearing) - min(leftBearing)
\* and the emitted Height max(ascent) + max(descent), over the glyphs of
\* Metrics, as mathematical integers.
C10_ExactBox ==
    (pc = "exit" /\ nMetrics > 0) =>
        \A k \in 1..Len(RunOutput) :
            RunOutput[k].k = "WidthHeight" =>
                /\ RunOutput[k].w =
                      MaxOf({metrics[i].rightSideBearing : i \in 1..nMetrics})
                        - MinOf({metrics[i].leftSideBearing : i \in 1..nMetrics})
                /\ RunOutput[k].h =
                      MaxOf({metrics[i].ascent : i \in 1..nMetrics})
                        + MaxOf({metrics[i].descent : i \in 1..nMetrics})

\* The cells of the encoding table (0-based) that hold a glyph index, not
\* the sentinel 0xFFFF, in table order.
RECURSIVE MappedCells(_)
MappedCells(i) ==
    IF i >= nEncodings THEN <<>>
    ELSE IF encodings[i + 1] = 65535 THEN MappedCells(i + 1)
    ELSE <<i>> \o MappedCells(i + 1)

\* The character code of cell i (0-based) of the encoding grid.
CellCode(i) ==
    make_charcode((i \div (lastCol - firstCol + 1)) + firstRow,
                  (i % (lastCol - firstCol + 1)) + firstCol)

\* The glyph entries the current run has written, in the order written.
GlyphSeq == SelectSeq(RunOutput, LAMBDA e : e.k = "glyph")

CompressedMetricsRead ==
    /\ pc = "seek_bitmaps"
    /\ format.id = PCF_COMPRESSED_METRICS

\* C12 as stated.  A compressed metric is four bytes on the wire: a
\* compressed Metrics section of n metrics takes 4 + 2 + 4 * n bytes from
\* its start.
C12_FourBytes ==
    CompressedMetricsRead => read_bytes = Off(PCF_METRICS) + 4 + 2 + 4 * nMetrics

\* C12, amended.  A compressed metric is five unsigned bytes on the wire, one
\* for each of leftSideBearing, rightSideBearing, characterWidth, ascent and
\* descent: each field is its byte minus 128, attributes is 0, and a
\* compressed Metrics section of n metrics takes 4 + 2 + 5 * n bytes from its
\* start.
C12_FiveBytes ==
    CompressedMetricsRead =>
        /\ read_bytes = Off(PCF_METRICS) + 4 + 2 + 5 * nMetrics
        /\ \A i \in 1..nMetrics :
              LET b == Off(PCF_METRICS) + 4 + 2 + 5 * (i - 1)
              IN  /\ metrics[i].leftSideBearing = ifp[b + 1] - 128
                  /\ metrics[i].rightSideBearing = ifp[b + 2] - 128
                  /\ metrics[i].characterWidth = ifp[b + 3] - 128
                  /\ metrics[i].ascent = ifp[b + 4] - 128
                  /\ metrics[i].descent = ifp[b + 5] - 128
                  /\ metrics[i].attributes = 0

\* A compressed Metrics section of two metrics has been decoded, with a
\* descent that differs from the other fields of its record.
C12_Witness ==
    /\ CompressedMetricsRead
    /\ nMetrics = 2
    /\ metrics[1].descent = 127
    /\ metrics[1].ascent = -128
    /\ metrics[2].leftSideBearing = -128

\* The places of the headers and of the font keys in the destination.
HeadersAt == {k \in 1..Len(fs) : fs[k].k = "header"}

FontsAt == {k \in 1..Len(fs) : fs[k].k = "font"}

\* C13 as stated.  After any sequence of runs on the same destination, each
\* succeeding or aborting anywhere, a destination that holds a font entry
\* holds the header exactly once, before every font entry.
C13_HeaderOnce ==
    (pc = "exit" /\ FontsAt # {}) =>
        /\ Cardinality(HeadersAt) = 1
        /\ \A h \in HeadersAt : \A f \in FontsAt : h < f

\* C14 as stated.  A run that aborts on a fatal condition leaves the
\* destination as the process found it: not created, not extended.
C14_AbortLeavesNothing ==
    (pc = "exit" /\ exitCode = 1 /\ ofilename # NoPath) =>
        /\ fsExists = fsExists0
        /\ fs = fs0

\* C15 as stated.  Within the font entry a run emits, no two glyph entries
\* have the same character code.
C15_UniqueKeys ==
    pc = "exit" =>
        \A i, j \in 1..Len(GlyphSeq) :
            i # j => GlyphSeq[i].charcode # GlyphSeq[j].charcode

\* The phases after the Properties decoder and after the Glyph Names one.
PostPropertiesPhases ==
    {"seek_accel", "read_accel", "seek_metrics", "read_metrics", "seek_bitmaps",
     "read_bitmaps"} \cup PostBitmapsPhases

PostGlyphNamesPhases == {"seek_bdfaccel", "read_bdfaccel"} \cup EmitPhases

\* C16 as stated.  Past the Properties decoder every property name offset
\* and every string property's value offset o satisfies 0 <= o < stringSize;
\* past the Glyph Names decoder every glyph name offset o satisfies
\* 0 <= o < glyphNamesSize.
C16_OffsetsInBlob ==
    /\ pc \in PostPropertiesPhases =>
          \A i \in 1..nProps :
              /\ 0 <= props[i].name /\ props[i].name < stringSize
              /\ props[i].isStringProp =>
                    (0 <= props[i].value /\ props[i].value < stringSize)
    /\ pc \in PostGlyphNamesPhases =>
          \A i \in 1..nMetrics :
              metrics[i].glyphName.set =>
                  /\ 0 <= metrics[i].glyphName.off
                  /\ metrics[i].glyphName.off < glyphNamesSize

====
